---------------------------- MODULE Spec2Model ----------------------------
(***************************************************************************)
(* Render/Geom bbox harness of RCS (rcs.geom): bbox_compare, bbox_align,   *)
(* bbox_report.                                                            *)
(*                                                                         *)
(* Python values are tagged records: None, a number (an exact rational     *)
(* n/d in lowest terms, standing for int and float alike; float rounding   *)
(* is not modelled), a string, a tuple/list, a dict.  A call that lets an  *)
(* exception escape returns Raised.  Each specification draws the          *)
(* arguments of one entry point in its initial state and applies the       *)
(* entry point once; clock is the wall clock read by compare_reports.      *)
(***************************************************************************)
EXTENDS Integers, Sequences, FiniteSets, TLC

VARIABLES fn, args, ret, pc, clock

vars == <<fn, args, ret, pc, clock>>

(***************************************************************************)
(* Bounds of the explored inputs.                                          *)
(***************************************************************************)
MaxPos == 1
MaxSize == 2
MaxTol == 2
MaxItems == 2

(***************************************************************************)
(* Python values.                                                          *)
(***************************************************************************)
None == [k |-> "None"]
Str(s) == [k |-> "str", s |-> s]
\* A string that is not the text of a number.
Junk == Str("junk")
Raised == [k |-> "raise"]
Tup(s) == [k |-> "tuple", items |-> s]

RECURSIVE Gcd(_, _)
Gcd(a, b) == IF b = 0 THEN a ELSE Gcd(b, a % b)

Abs(i) == IF i < 0 THEN -i ELSE i

\* The rational n/d (d # 0) in lowest terms with a positive denominator.
Q(n, d) ==
    LET s == IF d < 0 THEN -1 ELSE 1
        g == Gcd(Abs(n), Abs(d))
    IN  [k |-> "num", n |-> (s * n) \div g, d |-> (s * d) \div g]

Num(i) == [k |-> "num", n |-> i, d |-> 1]

IsNum(v) == v.k = "num"
QAdd(a, b) == Q(a.n * b.d + b.n * a.d, a.d * b.d)
QSub(a, b) == Q(a.n * b.d - b.n * a.d, a.d * b.d)
QMul(a, b) == Q(a.n * b.n, a.d * b.d)
QDiv(a, b) == Q(a.n * b.d, a.d * b.n)
QNeg(a) == [k |-> "num", n |-> -a.n, d |-> a.d]
QLe(a, b) == a.n * b.d <= b.n * a.d
QLt(a, b) == a.n * b.d < b.n * a.d
QAbs(a) == IF a.n < 0 THEN QNeg(a) ELSE a
\* Python's max(a, b, ...) and min(a, b): the first of the largest/smallest.
QMax2(a, b) == IF QLt(a, b) THEN b ELSE a
QMin2(a, b) == IF QLt(b, a) THEN b ELSE a
QMax4(a, b, c, d) == QMax2(QMax2(QMax2(a, b), c), d)

\* float(v): raises on anything that is not a number.
FloatOk(v) == IsNum(v)

\* a <= 1/den for an integer den > 0, without forming a.n * den.
LeReciprocal(a, den) == a.n <= a.d \div den

\* 1e-6 = 1/DegenerateEpsDen, the size at or below which compare_bboxes notes
\* a box as degenerate.
DegenerateEpsDen == 1000000

(***************************************************************************)
(* bbox_compare.py                                                         *)
(***************************************************************************)
\* BBoxXYXY is a 4-sequence <<x0, y0, x1, y1>> of numbers.
BBoxW(b) == QSub(b[3], b[1])
BBoxH(b) == QSub(b[4], b[2])

\* Python truthiness of the values used here.
Truthy(v) ==
    CASE v.k = "None" -> FALSE
      [] v.k = "num" -> v.n # 0
      [] v.k = "tuple" -> Len(v.items) > 0
      [] v.k = "str" -> v.s # ""
      [] OTHER -> TRUE

\* A coercion that takes (x, y, w, h) for a corner pair.
bbox_from_alpha_bbox_as_corners(a) ==
    IF ~Truthy(a) THEN None
    ELSE IF ~(a.k = "tuple" /\ Len(a.items) = 4) THEN None
    ELSE IF \E i \in 1..4 : ~IsNum(a.items[i]) THEN None
    ELSE IF a.items[3].n <= 0 \/ a.items[4].n <= 0 THEN None
    ELSE Tup(a.items)

\* (x, y, w, h) -> xyxy, or None.  Every exception inside the try is caught.
bbox_from_alpha_bbox(a) ==
    IF ~Truthy(a) THEN None
    ELSE IF ~(a.k = "tuple" /\ Len(a.items) = 4) THEN None
    ELSE LET x == a.items[1]
             y == a.items[2]
             w == a.items[3]
             h == a.items[4]
         IN  IF ~IsNum(w) THEN None
             ELSE IF w.n <= 0 THEN None
             ELSE IF ~IsNum(h) THEN None
             ELSE IF h.n <= 0 THEN None
             ELSE IF ~(IsNum(x) /\ IsNum(y)) THEN None
             ELSE Tup(<<x, y, QAdd(x, w), QAdd(y, h)>>)

\* A coercion that takes the first four of a longer list.
bbox_from_xyxy_tuple_any_length(g) ==
    IF g.k = "None" THEN None
    ELSE IF g.k = "tuple" /\ Len(g.items) >= 4
    THEN IF \A i \in 1..4 : FloatOk(g.items[i]) THEN Tup(SubSeq(g.items, 1, 4)) ELSE None
    ELSE None

\* (x0, y0, x1, y1) -> xyxy, or None.
bbox_from_xyxy_tuple(g) ==
    IF g.k = "None" THEN None
    ELSE IF g.k = "tuple" /\ Len(g.items) = 4
    THEN IF \A i \in 1..4 : FloatOk(g.items[i]) THEN Tup(g.items) ELSE None
    ELSE None

\* A comparison that tests the error strictly below the tolerance.
classify_strict(max_abs, tol, warn) ==
    IF QLt(max_abs, tol) THEN "PASS"
    ELSE IF QLe(max_abs, warn) THEN "WARN"
    ELSE "FAIL"

\* A comparison that tests the warn threshold strictly.
classify_warn_strict(max_abs, tol, warn) ==
    IF QLe(max_abs, tol) THEN "PASS"
    ELSE IF QLt(max_abs, warn) THEN "WARN"
    ELSE "FAIL"

\* PASS / WARN / FAIL of an error against the two thresholds: tol first.
classify(max_abs, tol, warn) ==
    IF QLe(max_abs, tol) THEN "PASS"
    ELSE IF QLe(max_abs, warn) THEN "WARN"
    ELSE "FAIL"

report_no_geom(qt_bbox, tol_abs_px, warn_abs_px) ==
    [k |-> "dict", status |-> "NO_GEOM",
     tol_abs_px |-> tol_abs_px, warn_abs_px |-> warn_abs_px,
     qt_bbox_xyxy |-> qt_bbox, geom_bbox_xyxy |-> None,
     max_abs_err_px |-> None, diff |-> None,
     notes |-> <<"geometry bbox not available">>]

report_invisible(geom_bbox, tol_abs_px, warn_abs_px) ==
    [k |-> "dict", status |-> "INVISIBLE",
     tol_abs_px |-> tol_abs_px, warn_abs_px |-> warn_abs_px,
     qt_bbox_xyxy |-> None, geom_bbox_xyxy |-> geom_bbox,
     max_abs_err_px |-> None, diff |-> None,
     notes |-> <<"QtSvg alpha bbox missing (likely invisible render)">>]

report_measured(qt_bbox, geom_bbox, tol_abs_px, warn_abs_px) ==
    LET q == qt_bbox.items
        g == geom_bbox.items
        dx0 == QSub(q[1], g[1])
        dy0 == QSub(q[2], g[2])
        dx1 == QSub(q[3], g[3])
        dy1 == QSub(q[4], g[4])
        dw == QSub(BBoxW(q), BBoxW(g))
        dh == QSub(BBoxH(q), BBoxH(g))
        max_abs == QMax4(QAbs(dx0), QAbs(dy0), QAbs(dx1), QAbs(dy1))
        n1 == IF LeReciprocal(BBoxW(g), DegenerateEpsDen) \/ LeReciprocal(BBoxH(g), DegenerateEpsDen)
              THEN <<"geom bbox degenerate">> ELSE <<>>
        n2 == IF LeReciprocal(BBoxW(q), DegenerateEpsDen) \/ LeReciprocal(BBoxH(q), DegenerateEpsDen)
              THEN <<"qt bbox degenerate">> ELSE <<>>
    IN  [k |-> "dict", status |-> classify(max_abs, tol_abs_px, warn_abs_px),
         tol_abs_px |-> tol_abs_px, warn_abs_px |-> warn_abs_px,
         qt_bbox_xyxy |-> qt_bbox, geom_bbox_xyxy |-> geom_bbox,
         max_abs_err_px |-> max_abs,
         diff |-> [dx0 |-> dx0, dy0 |-> dy0, dx1 |-> dx1, dy1 |-> dy1,
                   dw |-> dw, dh |-> dh],
         notes |-> n1 \o n2]

\* A comparison that looks at the observed bbox before the geometry bbox.
compare_bboxes_qt_first(qt_alpha_bbox, geom_bbox_xyxy, tol_abs_px, warn_abs_px) ==
    LET qt_bbox == bbox_from_alpha_bbox(qt_alpha_bbox)
        geom_bbox == bbox_from_xyxy_tuple(geom_bbox_xyxy)
    IN  IF ~(FloatOk(tol_abs_px) /\ FloatOk(warn_abs_px)) THEN Raised
        ELSE IF qt_bbox = None
        THEN report_invisible(geom_bbox, tol_abs_px, warn_abs_px)
        ELSE IF geom_bbox = None
        THEN report_no_geom(qt_bbox, tol_abs_px, warn_abs_px)
        ELSE report_measured(qt_bbox, geom_bbox, tol_abs_px, warn_abs_px)

\* Every return path converts both thresholds with float(), outside any try.
compare_bboxes(qt_alpha_bbox, geom_bbox_xyxy, tol_abs_px, warn_abs_px) ==
    LET qt_bbox == bbox_from_alpha_bbox(qt_alpha_bbox)
        geom_bbox == bbox_from_xyxy_tuple(geom_bbox_xyxy)
    IN  IF ~(FloatOk(tol_abs_px) /\ FloatOk(warn_abs_px)) THEN Raised
        ELSE IF geom_bbox = None
        THEN report_no_geom(qt_bbox, tol_abs_px, warn_abs_px)
        ELSE IF qt_bbox = None
        THEN report_invisible(geom_bbox, tol_abs_px, warn_abs_px)
        ELSE report_measured(qt_bbox, geom_bbox, tol_abs_px, warn_abs_px)

(***************************************************************************)
(* bbox_align.py                                                           *)
(***************************************************************************)
\* 1e-9 = 1/TinyExtentDen, the extent at or below which a source or target
\* box gives no transform.
TinyExtentDen == 1000000000

Half == Q(1, 2)

\* float("inf"), the score of a candidate without an error.
Inf == [k |-> "inf"]

\* a < b for scores (numbers or float("inf")).
ScoreLt(a, b) ==
    IF a.k = "inf" THEN FALSE
    ELSE IF b.k = "inf" THEN TRUE
    ELSE QLt(a, b)

Transform(kind, scale_x, scale_y, tx, ty) ==
    [k |-> "transform", kind |-> kind, scale_x |-> scale_x, scale_y |-> scale_y,
     tx |-> tx, ty |-> ty]

\* b is a 4-sequence of numbers; the result is a tuple of four floats.
map_bbox(b, t) ==
    Tup(<<QAdd(QMul(b[1], t.scale_x), t.tx),
          QAdd(QMul(b[2], t.scale_y), t.ty),
          QAdd(QMul(b[3], t.scale_x), t.tx),
          QAdd(QMul(b[4], t.scale_y), t.ty)>>)

NoExtent(src_w, src_h, dst_w, dst_h) ==
    \/ LeReciprocal(src_w, TinyExtentDen)
    \/ LeReciprocal(src_h, TinyExtentDen)
    \/ LeReciprocal(dst_w, TinyExtentDen)
    \/ LeReciprocal(dst_h, TinyExtentDen)

\* A letterbox that centres the source but forgets to shift its origin.
keep_aspect_transform_origin_kept(src_x, src_y, src_w, src_h, dst_w, dst_h, kind) ==
    IF NoExtent(src_w, src_h, dst_w, dst_h) THEN None
    ELSE LET s == QMin2(QDiv(dst_w, src_w), QDiv(dst_h, src_h))
             tx == QMul(QSub(dst_w, QMul(src_w, s)), Half)
             ty == QMul(QSub(dst_h, QMul(src_h, s)), Half)
         IN  Transform(kind, s, s, tx, ty)

\* A letterbox that takes the larger of the two scales (the source covers
\* the destination).
keep_aspect_transform_cover(src_x, src_y, src_w, src_h, dst_w, dst_h, kind) ==
    IF NoExtent(src_w, src_h, dst_w, dst_h) THEN None
    ELSE LET s == IF QLe(QDiv(dst_w, src_w), QDiv(dst_h, src_h))
                  THEN QDiv(dst_h, src_h) ELSE QDiv(dst_w, src_w)
             tx == QSub(QMul(QSub(dst_w, QMul(src_w, s)), Half), QMul(src_x, s))
             ty == QSub(QMul(QSub(dst_h, QMul(src_h, s)), Half), QMul(src_y, s))
         IN  Transform(kind, s, s, tx, ty)

keep_aspect_transform(src_x, src_y, src_w, src_h, dst_w, dst_h, kind) ==
    IF NoExtent(src_w, src_h, dst_w, dst_h) THEN None
    ELSE LET s == QMin2(QDiv(dst_w, src_w), QDiv(dst_h, src_h))
             tx == QSub(QMul(QSub(dst_w, QMul(src_w, s)), Half), QMul(src_x, s))
             ty == QSub(QMul(QSub(dst_h, QMul(src_h, s)), Half), QMul(src_y, s))
         IN  Transform(kind, s, s, tx, ty)

\* A stretch that scales both axes by the horizontal factor.
stretch_transform_uniform(src_x, src_y, src_w, src_h, dst_w, dst_h, kind) ==
    IF NoExtent(src_w, src_h, dst_w, dst_h) THEN None
    ELSE LET sx == QDiv(dst_w, src_w)
         IN  Transform(kind, sx, sx, QNeg(QMul(src_x, sx)), QNeg(QMul(src_y, sx)))

stretch_transform(src_x, src_y, src_w, src_h, dst_w, dst_h, kind) ==
    IF NoExtent(src_w, src_h, dst_w, dst_h) THEN None
    ELSE LET sx == QDiv(dst_w, src_w)
             sy == QDiv(dst_h, src_h)
         IN  Transform(kind, sx, sy, QNeg(QMul(src_x, sx)), QNeg(QMul(src_y, sy)))

\* The first four elements as floats, or None.
as_viewbox(v) ==
    IF v.k = "tuple" /\ Len(v.items) >= 4
    THEN IF \A i \in 1..4 : FloatOk(v.items[i])
         THEN Tup(SubSeq(v.items, 1, 4)) ELSE None
    ELSE None

\* The first two elements as floats, or None.
as_size(v) ==
    IF v.k = "tuple" /\ Len(v.items) >= 2
    THEN IF \A i \in 1..2 : FloatOk(v.items[i])
         THEN Tup(SubSeq(v.items, 1, 2)) ELSE None
    ELSE None

\* A generation that appends the stretch candidate before the keep-aspect one.
viewport_candidates_stretch_first(gb, x, y, w, h, dst_w, dst_h, keep_kind, stretch_kind) ==
    LET t == keep_aspect_transform(x, y, w, h, dst_w, dst_h, keep_kind)
        t2 == stretch_transform(x, y, w, h, dst_w, dst_h, stretch_kind)
    IN  (IF t2 # None THEN <<[t |-> t2, mapped |-> map_bbox(gb, t2)]>> ELSE <<>>)
        \o (IF t # None THEN <<[t |-> t, mapped |-> map_bbox(gb, t)]>> ELSE <<>>)

\* The keep-aspect and then the stretch candidate of one viewport, each only
\* if its transform exists.
viewport_candidates(gb, x, y, w, h, dst_w, dst_h, keep_kind, stretch_kind) ==
    LET t == keep_aspect_transform(x, y, w, h, dst_w, dst_h, keep_kind)
        t2 == stretch_transform(x, y, w, h, dst_w, dst_h, stretch_kind)
    IN  (IF t # None THEN <<[t |-> t, mapped |-> map_bbox(gb, t)]>> ELSE <<>>)
        \o (IF t2 # None THEN <<[t |-> t2, mapped |-> map_bbox(gb, t2)]>> ELSE <<>>)

\* Candidates in the order the code appends them.
generate_candidates(gb, dst_w, dst_h, qtsvg_viewbox, svge_viewbox, svge_doc_size) ==
    LET vb_qt == as_viewbox(qtsvg_viewbox)
        vb_svge == as_viewbox(svge_viewbox)
        sz == as_size(svge_doc_size)
    IN  <<[t |-> Transform("raw", Num(1), Num(1), Num(0), Num(0)), mapped |-> Tup(gb)]>>
        \o (IF vb_qt # None
            THEN viewport_candidates(gb, vb_qt.items[1], vb_qt.items[2],
                     vb_qt.items[3], vb_qt.items[4], dst_w, dst_h,
                     "qtsvg_viewbox_keep", "qtsvg_viewbox_stretch")
            ELSE <<>>)
        \o (IF vb_svge # None
            THEN viewport_candidates(gb, vb_svge.items[1], vb_svge.items[2],
                     vb_svge.items[3], vb_svge.items[4], dst_w, dst_h,
                     "svge_viewbox_keep", "svge_viewbox_stretch")
            ELSE <<>>)
        \o (IF sz # None
            THEN viewport_candidates(gb, Num(0), Num(0), sz.items[1], sz.items[2],
                     dst_w, dst_h, "svge_docsize_keep", "svge_docsize_stretch")
            ELSE <<>>)

\* The report of one candidate; an exception of the comparison (the float()
\* of a threshold) is caught and leaves the placeholder report.
score_report(qt_alpha_bbox, mapped, tol_abs_px, warn_abs_px) ==
    LET rep == compare_bboxes(qt_alpha_bbox, mapped, tol_abs_px, warn_abs_px)
    IN  IF rep = Raised THEN [k |-> "dict", status |-> "?", max_abs_err_px |-> None]
        ELSE rep

score_err(rep) == IF rep.max_abs_err_px = None THEN Inf ELSE rep.max_abs_err_px

candidate_entry(c, rep) ==
    [kind |-> c.t.kind, max_abs_err_px |-> rep.max_abs_err_px, status |-> rep.status,
     transform |-> [scale_x |-> c.t.scale_x, scale_y |-> c.t.scale_y,
                    tx |-> c.t.tx, ty |-> c.t.ty]]

\* A selection that also replaces the best on an equal score (last wins).
better_or_equal(err_f, best_err) == ~ScoreLt(best_err, err_f)

\* The test that replaces the best so far: strictly smaller only.
better(err_f, best_err) == ScoreLt(err_f, best_err)

\* The scoring loop from candidate i on; best is <<err, candidate>>.
RECURSIVE pick_best(_, _, _, _)
pick_best(cands, errs, i, best) ==
    IF i > Len(cands) THEN best
    ELSE pick_best(cands, errs, i + 1,
             IF better(errs[i], best[1]) THEN <<errs[i], cands[i]>> ELSE best)

\* int(v) of a number: truncation toward zero.
IntTrunc(v) ==
    IF v.n >= 0 THEN Num(v.n \div v.d) ELSE Num(-((-v.n) \div v.d))

\* A short-circuit that also takes a degenerate observed rect for absent.
short_circuit_note_degenerate(qt_alpha_bbox, gb) ==
    IF bbox_from_alpha_bbox(qt_alpha_bbox) = None
    THEN "qt alpha bbox missing; cannot score candidates"
    ELSE IF gb = None THEN "geom bbox missing"
    ELSE IF ~(gb.k = "tuple" /\ Len(gb.items) >= 4) THEN "geom bbox invalid"
    ELSE IF ~(\A i \in 1..4 : FloatOk(gb.items[i])) THEN "geom bbox coercion failed"
    ELSE ""

\* The note of the early return, or "" when the call goes on to score.
short_circuit_note(qt_alpha_bbox, gb) ==
    IF qt_alpha_bbox = None THEN "qt alpha bbox missing; cannot score candidates"
    ELSE IF gb = None THEN "geom bbox missing"
    ELSE IF ~(gb.k = "tuple" /\ Len(gb.items) >= 4) THEN "geom bbox invalid"
    ELSE IF ~(\A i \in 1..4 : FloatOk(gb.items[i])) THEN "geom bbox coercion failed"
    ELSE ""

\* The transform dict of the info.
transform_entry(t) == [scale_x |-> t.scale_x, scale_y |-> t.scale_y, tx |-> t.tx, ty |-> t.ty]

\* A result that returns the bbox of the last candidate scored, not the best.
scored_result_last_mapped(cands, reps, best, render_px) ==
    [k |-> "pair", bbox |-> cands[Len(cands)].mapped,
     info |-> [chosen |-> best.t.kind,
               candidates |-> [i \in 1..Len(cands) |-> candidate_entry(cands[i], reps[i])],
               transform |-> transform_entry(best.t),
               render_px |-> IntTrunc(render_px)]]

\* The returned pair: the mapped bbox of the best candidate and the info.
scored_result(cands, reps, best, render_px) ==
    [k |-> "pair", bbox |-> best.mapped,
     info |-> [chosen |-> best.t.kind,
               candidates |-> [i \in 1..Len(cands) |-> candidate_entry(cands[i], reps[i])],
               transform |-> transform_entry(best.t),
               render_px |-> IntTrunc(render_px)]]

\* The candidate the scoring loop ends with, starting from (inf, first).
select_best(cands, reps) ==
    pick_best(cands, [i \in 1..Len(cands) |-> score_err(reps[i])], 1, <<Inf, cands[1]>>)[2]

\* Score every candidate against the observed bbox and return the best.
score_candidates(qt_alpha_bbox, cands, tol_abs_px, warn_abs_px, render_px) ==
    LET reps == [i \in 1..Len(cands) |->
                    score_report(qt_alpha_bbox, cands[i].mapped, tol_abs_px, warn_abs_px)]
    IN  scored_result(cands, reps, select_best(cands, reps), render_px)

align_geom_bbox_to_qt(qt_alpha_bbox, geom_bbox_xyxy, render_px, qtsvg_viewbox, svge_viewbox, svge_doc_size, tol_abs_px, warn_abs_px) ==
    LET note == short_circuit_note(qt_alpha_bbox, geom_bbox_xyxy)
    IN  IF note # ""
        THEN [k |-> "pair", bbox |-> geom_bbox_xyxy,
              info |-> [chosen |-> "raw", candidates |-> <<>>, note |-> note]]
        ELSE IF ~FloatOk(render_px) THEN Raised
        ELSE score_candidates(qt_alpha_bbox,
                 generate_candidates(SubSeq(geom_bbox_xyxy.items, 1, 4), render_px,
                     render_px, qtsvg_viewbox, svge_viewbox, svge_doc_size),
                 tol_abs_px, warn_abs_px, render_px)

(***************************************************************************)
(* bbox_report.py                                                          *)
(***************************************************************************)
\* str.strip() on the status texts of the model.
Strip(s) ==
    CASE s = " FAIL " -> "FAIL"
      [] OTHER -> s

\* str.upper() on the status texts of the model.
Upper(s) ==
    CASE s = "warn" -> "WARN"
      [] s = "no_geom" -> "NO_GEOM"
      [] OTHER -> s

\* str(v or ""): the text of a status (None and "" give "").
StatusText(v) == IF v.k = "str" THEN v.s ELSE ""

STATUS_SEVERITY ==
    ("PASS" :> 0) @@ ("WARN" :> 1) @@ ("FAIL" :> 2) @@ ("INVISIBLE" :> 3)
    @@ ("NO_GEOM" :> -1)

ACTIONABLE_STATUSES == {"WARN", "FAIL", "INVISIBLE"}

\* float(v), or None for None and for a value float() rejects.
safe_float(v) == IF IsNum(v) THEN v ELSE None

\* os.path.normpath on the paths of the model.
NormPath(os_name, p) ==
    CASE p = "" -> "."
      [] p = "./a.svg" -> "a.svg"
      [] p = "d/a.svg" /\ os_name = "nt" -> "d\\a.svg"
      [] OTHER -> p

\* os.path.normcase on the paths of the model: the identity on POSIX, lower
\* case and backslashes on Windows.
NormCase(os_name, p) ==
    IF os_name = "nt"
    THEN CASE p = "A.svg" -> "a.svg"
           [] p = "d/a.svg" -> "d\\a.svg"
           [] p = "D\\A.svg" -> "d\\a.svg"
           [] OTHER -> p
    ELSE p

norm_svg_key(os_name, svg) == NormCase(os_name, NormPath(os_name, StatusText(svg)))

status_severity(status) ==
    LET s == Upper(Strip(StatusText(status)))
    IN  IF s \in DOMAIN STATUS_SEVERITY THEN STATUS_SEVERITY[s] ELSE 2

\* A filter that lets PASS through.
is_actionable_with_pass(status, include_no_geom) ==
    LET s == Upper(Strip(StatusText(status)))
    IN  IF include_no_geom /\ s = "NO_GEOM" THEN TRUE
        ELSE s \in ACTIONABLE_STATUSES \cup {"PASS"}

is_actionable(status, include_no_geom) ==
    LET s == Upper(Strip(StatusText(status)))
    IN  IF include_no_geom /\ s = "NO_GEOM" THEN TRUE
        ELSE s \in ACTIONABLE_STATUSES

\* Lexicographic < on sort keys <<severity, value>>.
KeyLt(a, b) == a[1] < b[1] \/ (a[1] = b[1] /\ QLt(a[2], b[2]))

\* list.sort(key=..., reverse=True) on a sequence of [key, it]: descending and
\* stable (equal keys keep their order).
RECURSIVE InsertDesc(_, _)
InsertDesc(sorted, x) ==
    IF sorted = <<>> THEN <<x>>
    ELSE IF KeyLt(Head(sorted).key, x.key) THEN <<x>> \o sorted
    ELSE <<Head(sorted)>> \o InsertDesc(Tail(sorted), x)

RECURSIVE SortDesc(_)
SortDesc(s) ==
    IF s = <<>> THEN <<>>
    ELSE InsertDesc(SortDesc(SubSeq(s, 1, Len(s) - 1)), s[Len(s)])

\* 1e9, the sort value of an INVISIBLE item without a numeric error.
InvisibleSortValue == 1000000000

\* A key that puts every item without a numeric error last in its tier.
rank_key_none_last(it) ==
    LET st == Upper(Strip(StatusText(it.status)))
        err == safe_float(it.max_abs_err_px)
    IN  <<status_severity(Str(st)), IF err = None THEN Num(-1) ELSE err>>

\* rank_items.key
rank_key(it) ==
    LET st == Upper(Strip(StatusText(it.status)))
        err == safe_float(it.max_abs_err_px)
    IN  <<status_severity(Str(st)),
          IF err = None
          THEN (IF st = "INVISIBLE" THEN Num(InvisibleSortValue) ELSE Num(-1))
          ELSE err>>

\* s[: n] for an integer n.
SlicePrefix(s, n) ==
    IF n >= 0 THEN SubSeq(s, 1, IF n < Len(s) THEN n ELSE Len(s))
    ELSE SubSeq(s, 1, IF Len(s) + n > 0 THEN Len(s) + n ELSE 0)

\* out[: int(limit)]; an int() that raises leaves the whole list.
truncate(out, limit) ==
    IF limit = None THEN out
    ELSE IF ~IsNum(limit) THEN out
    ELSE SlicePrefix(out, IntTrunc(limit).n)

\* it.get(...) raises on an item that is not a dict.
AllDicts(items) == \A i \in DOMAIN items : items[i].k = "dict"

rank_items(items, include_no_geom, limit) ==
    IF ~AllDicts(items) THEN Raised
    ELSE LET Keep(it) == is_actionable(it.status, include_no_geom)
             out == SelectSeq(items, Keep)
             keyed == [i \in 1..Len(out) |-> [key |-> rank_key(out[i]), it |-> out[i]]]
             sorted == SortDesc(keyed)
         IN  Tup(truncate([i \in 1..Len(sorted) |-> sorted[i].it], limit))

\* it.get("svg") or it.get("path") or "": the items of the model carry no
\* "path" entry.
item_key(os_name, it) ==
    norm_svg_key(os_name, IF Truthy(it.svg) THEN it.svg ELSE Str(""))

\* to_map: key -> item, in the order of first insertion, the last item of a
\* key winning.  The result is a sequence of [key, it].
RECURSIVE to_map_from(_, _, _, _)
to_map_from(os_name, items, i, m) ==
    IF i > Len(items) THEN m
    ELSE LET kk == item_key(os_name, items[i])
             at == {j \in DOMAIN m : m[j].key = kk}
         IN  to_map_from(os_name, items, i + 1,
                 IF kk = "" THEN m
                 ELSE IF at = {} THEN Append(m, [key |-> kk, it |-> items[i]])
                 ELSE [j \in DOMAIN m |->
                          IF j \in at THEN [key |-> kk, it |-> items[i]] ELSE m[j]])

to_map(os_name, items) == to_map_from(os_name, items, 1, <<>>)

MapKeys(m) == {m[j].key : j \in DOMAIN m}
MapGet(m, kk) == m[CHOOSE j \in DOMAIN m : m[j].key = kk].it

\* The entry of one matched pair.
report_entry(kk, b, c) ==
    LET b_err == safe_float(b.max_abs_err_px)
        c_err == safe_float(c.max_abs_err_px)
    IN  [svg |-> IF Truthy(c.svg) THEN c.svg ELSE IF Truthy(b.svg) THEN b.svg ELSE Str(kk),
         baseline_status |-> Upper(StatusText(b.status)),
         current_status |-> Upper(StatusText(c.status)),
         baseline_max_abs_err_px |-> b_err,
         current_max_abs_err_px |-> c_err,
         delta_max_abs_err_px |->
             IF b_err # None /\ c_err # None THEN QSub(c_err, b_err) ELSE None]

\* A classification that counts a growth of exactly err_eps as a regression.
classify_pair_inclusive(b, c, err_eps) ==
    LET e == report_entry("", b, c)
        b_sev == status_severity(Str(e.baseline_status))
        c_sev == status_severity(Str(e.current_status))
        d == e.delta_max_abs_err_px
    IN  IF e.baseline_status = "NO_GEOM" \/ e.current_status = "NO_GEOM" THEN "unchanged"
        ELSE IF c_sev > b_sev THEN "regression"
        ELSE IF c_sev < b_sev THEN "improvement"
        ELSE IF d # None /\ ~FloatOk(err_eps) THEN "raise"
        ELSE IF d # None /\ QLe(err_eps, d) THEN "regression"
        ELSE IF d # None /\ QLt(d, QNeg(err_eps)) THEN "improvement"
        ELSE "unchanged"

\* The class of one matched pair: "regression", "improvement", "unchanged",
\* or "raise" when float(err_eps) raises.
classify_pair(b, c, err_eps) ==
    LET e == report_entry("", b, c)
        b_sev == status_severity(Str(e.baseline_status))
        c_sev == status_severity(Str(e.current_status))
        d == e.delta_max_abs_err_px
    IN  IF e.baseline_status = "NO_GEOM" \/ e.current_status = "NO_GEOM" THEN "unchanged"
        ELSE IF c_sev > b_sev THEN "regression"
        ELSE IF c_sev < b_sev THEN "improvement"
        ELSE IF d # None /\ ~FloatOk(err_eps) THEN "raise"
        ELSE IF d # None /\ QLt(err_eps, d) THEN "regression"
        ELSE IF d # None /\ QLt(d, QNeg(err_eps)) THEN "improvement"
        ELSE "unchanged"

\* compare_reports.reg_key
reg_key(e) ==
    LET de == safe_float(e.delta_max_abs_err_px)
    IN  <<status_severity(Str(e.current_status)),
          IF de = None
          THEN (IF Upper(e.current_status) = "INVISIBLE"
                THEN Num(InvisibleSortValue) ELSE Num(0))
          ELSE de>>

\* A baseline scan that reports a matched key as missing too.
missing_keys_all(bmap, cmap) == [j \in DOMAIN bmap |-> bmap[j].key]

\* The baseline keys, in baseline order, that the current run lacks.
missing_keys(bmap, cmap) ==
    SelectSeq([j \in DOMAIN bmap |-> bmap[j].key], LAMBDA kk : kk \notin MapKeys(cmap))

\* The current keys, in current order, that the baseline lacks.
new_keys(bmap, cmap) ==
    SelectSeq([j \in DOMAIN cmap |-> cmap[j].key], LAMBDA kk : kk \notin MapKeys(bmap))

\* The baseline entries whose key the current run has too, in baseline order.
matched_pairs(bmap, cmap) == SelectSeq(bmap, LAMBDA e : e.key \in MapKeys(cmap))

\* The class and the entry of every matched pair.
classify_all(matched, cmap, err_eps) ==
    [j \in DOMAIN matched |->
        [class |-> classify_pair(matched[j].it, MapGet(cmap, matched[j].key), err_eps),
         entry |-> report_entry(matched[j].key, matched[j].it,
                       MapGet(cmap, matched[j].key))]]

\* The entries of one class, in baseline order.
entries_of(classed, class) ==
    [j \in DOMAIN SelectSeq(classed, LAMBDA x : x.class = class) |->
        SelectSeq(classed, LAMBDA x : x.class = class)[j].entry]

\* regressions.sort(key=reg_key, reverse=True)
sort_regressions(regs) ==
    [j \in DOMAIN regs |->
        SortDesc([i \in DOMAIN regs |-> [key |-> reg_key(regs[i]), it |-> regs[i]]])[j].it]

\* A summary whose count of new keys is taken from the missing list.
summary_new_from_missing(now, bmap, cmap, regressions, improvements, unchanged, new, missing) ==
    [k |-> "dict", when |-> now,
     counts |-> [baseline |-> Len(bmap), current |-> Len(cmap),
                 regressions |-> Len(regressions),
                 improvements |-> Len(improvements),
                 unchanged |-> unchanged,
                 new |-> Len(missing), missing |-> Len(missing)],
     regressions |-> regressions, improvements |-> improvements,
     new |-> new, missing |-> missing]

\* The returned summary.
summary(now, bmap, cmap, regressions, improvements, unchanged, new, missing) ==
    [k |-> "dict", when |-> now,
     counts |-> [baseline |-> Len(bmap), current |-> Len(cmap),
                 regressions |-> Len(regressions),
                 improvements |-> Len(improvements),
                 unchanged |-> unchanged,
                 new |-> Len(new), missing |-> Len(missing)],
     regressions |-> regressions, improvements |-> improvements,
     new |-> new, missing |-> missing]

\* The summary of the classified pairs; a pair whose float(err_eps) raised
\* lets the exception escape.
summarize(now, bmap, cmap, classed) ==
    IF \E j \in DOMAIN classed : classed[j].class = "raise" THEN Raised
    ELSE summary(now, bmap, cmap,
             sort_regressions(entries_of(classed, "regression")),
             entries_of(classed, "improvement"),
             Len(entries_of(classed, "unchanged")),
             new_keys(bmap, cmap), missing_keys(bmap, cmap))

compare_maps(now, bmap, cmap, err_eps) ==
    summarize(now, bmap, cmap, classify_all(matched_pairs(bmap, cmap), cmap, err_eps))

compare_reports(os_name, now, baseline_items, current_items, err_eps) ==
    IF ~(AllDicts(baseline_items) /\ AllDicts(current_items)) THEN Raised
    ELSE compare_maps(now, to_map(os_name, baseline_items),
             to_map(os_name, current_items), err_eps)

\* load_bbox_report, given what json.loads(Path(path).read_text()) yields:
\* Unreadable when Path(), the read or the parse raises, else the parsed
\* data.  Only the dicts of a list, or of the "items" list of a dict, are
\* kept.
Unreadable == [k |-> "unreadable"]

OnlyDicts(s) == SelectSeq(s, LAMBDA x : x.k = "dict")

load_bbox_report(path, data) ==
    IF path.k # "str" \/ data = Unreadable THEN Tup(<<>>)
    ELSE IF data.k = "tuple" THEN Tup(OnlyDicts(data.items))
    ELSE IF data.k = "dict" /\ "items" \in DOMAIN data /\ data.items.k = "tuple"
         THEN Tup(OnlyDicts(data.items.items))
    ELSE Tup(<<>>)

\* ",".join(modes) takes a list of strings.
JoinOk(modes) ==
    modes.k = "tuple" /\ \A i \in DOMAIN modes.items : modes.items[i].k = "str"

\* The command line, as the values formatted into it; a conversion that
\* raises escapes.
build_repro_cmd(svg_path, out_dir, modes, size_px, render_scale, bbox_tol, bbox_warn, recursive) ==
    IF ~JoinOk(modes) \/ ~FloatOk(size_px) \/ ~FloatOk(render_scale)
       \/ ~FloatOk(bbox_tol) \/ ~FloatOk(bbox_warn)
    THEN Raised
    ELSE [k |-> "cmd", svg |-> svg_path, out |-> out_dir, modes |-> modes.items,
          size |-> IntTrunc(size_px), scale |-> render_scale,
          bbox_tol |-> bbox_tol, bbox_warn |-> bbox_warn,
          recursive |-> Truthy(recursive)]

(***************************************************************************)
(* svg_viewport_normalize.py                                               *)
(*                                                                         *)
(* The text of a width/height attribute is None (absent), a text the       *)
(* length pattern rejects, or LenText(v, u): a signed number v followed by *)
(* the letters u as written.  The text of a viewBox attribute is None, a   *)
(* text, or VbText(parts): its tokens between blanks and commas, each a    *)
(* number or a token float() rejects.                                      *)
(***************************************************************************)
CSS_PPI == Num(96)

LenText(v, u) == [k |-> "lentext", v |-> v, u |-> u]

VbText(parts) == [k |-> "vbtext", parts |-> parts]

\* str.lower() on the unit texts of the model.
Lower(u) ==
    CASE u = "MM" -> "mm"
      [] u = "Px" -> "px"
      [] OTHER -> u

PhysicalUnits == {"mm", "cm", "in", "pt", "pc"}

\* <<value, unit>> of a length text; the value is None when the pattern
\* rejects the text.
parse_length(s) ==
    IF s.k # "lentext" THEN <<None, "unknown">>
    ELSE IF Lower(s.u) = "" THEN <<s.v, "px">>
    ELSE IF Lower(s.u) = "%" THEN <<s.v, "percent">>
    ELSE IF Lower(s.u) \in {"px"} \cup PhysicalUnits THEN <<s.v, Lower(s.u)>>
    ELSE <<s.v, "unknown">>

\* A conversion that takes 1 mm for 1/10 inch.
to_inches_decimal_mm(v, u) ==
    CASE u = "in" -> v
      [] u = "cm" -> QDiv(v, Q(127, 50))
      [] u = "mm" -> QDiv(v, Num(10))
      [] u = "pt" -> QDiv(v, Num(72))
      [] u = "pc" -> QDiv(v, Num(6))
      [] OTHER -> None

to_inches(v, u) ==
    CASE u = "in" -> v
      [] u = "cm" -> QDiv(v, Q(127, 50))
      [] u = "mm" -> QDiv(v, Q(127, 5))
      [] u = "pt" -> QDiv(v, Num(72))
      [] u = "pc" -> QDiv(v, Num(6))
      [] OTHER -> None

\* (x, y, w, h) of a viewBox text, or None.
parse_viewbox(s) ==
    IF s.k # "vbtext" THEN None
    ELSE IF Len(s.parts) # 4 THEN None
    ELSE IF \E i \in 1..4 : ~FloatOk(s.parts[i]) THEN None
    ELSE IF s.parts[3].n <= 0 \/ s.parts[4].n <= 0 THEN None
    ELSE Tup(s.parts)

\* One axis of the document size, in px.
length_px(val, u) ==
    IF u = "px" \/ u = "unknown" THEN val
    ELSE IF to_inches(val, u) = None THEN val
    ELSE QMul(to_inches(val, u), CSS_PPI)

\* A resolution that prefers the viewBox to width and height.
doc_size_viewbox_first(w, h, vb) ==
    IF vb # None THEN <<vb.items[3], vb.items[4]>>
    ELSE IF w[1] # None /\ h[1] # None /\ w[2] # "percent" /\ h[2] # "percent"
    THEN <<length_px(w[1], w[2]), length_px(h[1], h[2])>>
    ELSE <<Num(0), Num(0)>>

\* <<doc_w, doc_h>> from the parsed width, height and viewBox.
doc_size(w, h, vb) ==
    IF w[1] # None /\ h[1] # None /\ w[2] # "percent" /\ h[2] # "percent"
    THEN <<length_px(w[1], w[2]), length_px(h[1], h[2])>>
    ELSE IF vb # None THEN <<vb.items[3], vb.items[4]>>
    ELSE <<Num(0), Num(0)>>

\* The ppi estimates of one axis: <<extent / inches>> when the length is in a
\* physical unit and positive, else <<>>.
axis_ppi(val, u, extent) ==
    IF val = None THEN <<>>
    ELSE IF to_inches(val, u) = None THEN <<>>
    ELSE IF to_inches(val, u).n <= 0 THEN <<>>
    ELSE <<QDiv(extent, to_inches(val, u))>>

\* sum(ppis) / len(ppis)
mean(ppis) ==
    IF Len(ppis) = 1 THEN ppis[1] ELSE QDiv(QAdd(ppis[1], ppis[2]), Num(2))

\* An estimate that keeps only the width axis.
estimate_ppi_width_only(w, h, vb) ==
    IF vb = None THEN CSS_PPI
    ELSE IF axis_ppi(w[1], w[2], vb.items[3]) = <<>> THEN CSS_PPI
    ELSE mean(axis_ppi(w[1], w[2], vb.items[3]))

estimate_ppi(w, h, vb) ==
    IF vb = None THEN CSS_PPI
    ELSE IF axis_ppi(w[1], w[2], vb.items[3]) \o axis_ppi(h[1], h[2], vb.items[4]) = <<>>
    THEN CSS_PPI
    ELSE mean(axis_ppi(w[1], w[2], vb.items[3]) \o axis_ppi(h[1], h[2], vb.items[4]))

NormalizedViewport(doc, viewbox, ppi, units, raw) ==
    [k |-> "viewport", doc_w |-> doc[1], doc_h |-> doc[2], viewbox |-> viewbox,
     ppi |-> ppi, units |-> units, raw |-> raw]

\* A failure result that reports the default size of a 300 x 150 canvas.
zeroed_viewport_default_canvas(svg_path, error) ==
    NormalizedViewport(<<Num(300), Num(150)>>, None, CSS_PPI, "unknown",
        [error |-> error, path |-> svg_path])

\* The result for a file that cannot be read or parsed.
zeroed_viewport(svg_path, error) ==
    NormalizedViewport(<<Num(0), Num(0)>>, None, CSS_PPI, "unknown",
        [error |-> error, path |-> svg_path])

\* The result for the parsed attributes of the root element.
viewport_of(svg_path, root, w, h, vb) ==
    NormalizedViewport(doc_size(w, h, vb), vb, estimate_ppi(w, h, vb),
        IF w[2] # "unknown" THEN w[2] ELSE h[2],
        [path |-> svg_path, root_tag |-> "svg", width |-> root.width,
         height |-> root.height, viewBox |-> root.viewBox])

\* What reading and parsing the file yields: the read raises, the XML parser
\* raises, or a root element with its width, height and viewBox attributes.
ReadError == [k |-> "read_error"]
ParseError == [k |-> "parse_error"]
Root(width, height, viewBox) ==
    [k |-> "root", width |-> width, height |-> height, viewBox |-> viewBox]

\* Path(svg_path) raises for a value that is no path.
normalize_svg_viewport(svg_path, file) ==
    IF svg_path.k # "str" THEN Raised
    ELSE IF file = ReadError THEN zeroed_viewport(svg_path, "read")
    ELSE IF file = ParseError THEN zeroed_viewport(svg_path, "parse")
    ELSE viewport_of(svg_path, file, parse_length(file.width),
             parse_length(file.height), parse_viewbox(file.viewBox))

(***************************************************************************)
(* render_debug.py: _render_one, from the alignment to the comparison of   *)
(* the aligned geometry bbox.                                              *)
(***************************************************************************)
\* geom_compare["geom_align"] = geom_align
with_geom_align(report, geom_align) ==
    [f \in DOMAIN report \cup {"geom_align"} |->
        IF f = "geom_align" THEN geom_align ELSE report[f]]

\* compare_bboxes of the observed bbox with the bbox the alignment returned.
compare_aligned(raw_alpha_bbox, aligned, bbox_tol, bbox_warn) ==
    IF aligned = Raised THEN Raised
    ELSE IF compare_bboxes(raw_alpha_bbox, aligned.bbox, bbox_tol, bbox_warn) = Raised
    THEN Raised
    ELSE with_geom_align(
             compare_bboxes(raw_alpha_bbox, aligned.bbox, bbox_tol, bbox_warn),
             aligned.info)

\* The value of geom_compare once the alignment info is attached.
geom_compare(raw_alpha_bbox, geom_bbox_xyxy, render_px, qtsvg_viewbox, geom_viewbox, geom_doc_size, bbox_tol, bbox_warn) ==
    compare_aligned(raw_alpha_bbox,
        align_geom_bbox_to_qt(raw_alpha_bbox, geom_bbox_xyxy, render_px,
            qtsvg_viewbox, geom_viewbox, geom_doc_size, bbox_tol, bbox_warn),
        bbox_tol, bbox_warn)

(***************************************************************************)
(* Inputs of compare_bboxes: the observed rect of the rasterizer (integer  *)
(* pixels, or None), the geometry corner pair, two numeric thresholds.     *)
(***************************************************************************)
QtRects ==
    {None} \cup
    {Tup(<<Num(x), Num(y), Num(w), Num(h)>>) :
        x \in 0..MaxPos, y \in 0..MaxPos, w \in -1..MaxSize, h \in -1..MaxSize}

GeomBoxes ==
    {None, Tup(<<Num(0), Num(0), Num(1)>>)} \cup
    {Tup(<<Num(x0), Num(y0), Num(x1), Num(y1)>>) :
        x0 \in 0..MaxPos, y0 \in 0..MaxPos,
        x1 \in 0..(MaxPos + MaxSize), y1 \in 0..(MaxPos + MaxSize)}

Thresholds == {Num(t) : t \in 0..MaxTol}

\* An observed rect (10, 10, 50, 50) against the corner pair of the same
\* extents, and against one that is a pixel taller.
IdenticalExtentsArgs ==
    [qt : {Tup(<<Num(10), Num(10), Num(50), Num(50)>>)},
     geom : {Tup(<<Num(10), Num(10), Num(60), Num(60)>>),
             Tup(<<Num(10), Num(10), Num(60), Num(61)>>)},
     tol : {Num(0)}, warn : {Num(0)}]

InitCompare ==
    /\ fn = "compare_bboxes"
    /\ args \in [qt : QtRects, geom : GeomBoxes, tol : Thresholds, warn : Thresholds]
                   \cup IdenticalExtentsArgs
    /\ ret = None
    /\ pc = "call"
    /\ clock = 0

call_compare_bboxes ==
    /\ pc = "call"
    /\ fn = "compare_bboxes"
    /\ ret' = compare_bboxes(args.qt, args.geom, args.tol, args.warn)
    /\ pc' = "done"
    /\ clock' = clock + 1
    /\ UNCHANGED <<fn, args>>

SpecCompare == InitCompare /\ [][call_compare_bboxes]_vars

(***************************************************************************)
(* Claims about compare_bboxes (checked under SpecCompare).                *)
(***************************************************************************)
CompareDone == pc = "done" /\ fn = "compare_bboxes"

\* The geometry argument is a corner pair of four numbers.
GeomGiven == args.geom.k = "tuple" /\ Len(args.geom.items) = 4

\* The observed argument is a rect with positive width and height.
QtGiven ==
    /\ args.qt.k = "tuple"
    /\ args.qt.items[3].n > 0
    /\ args.qt.items[4].n > 0

\* C1: with the geometry bbox absent the status is NO_GEOM whatever the
\* observed bbox is; with the geometry bbox present and the observed bbox
\* None or of non-positive width or height the status is INVISIBLE; in both
\* cases max_abs_err_px and diff are None.
C1_AbsencePriority ==
    CompareDone =>
        /\ ~GeomGiven =>
              /\ ret.status = "NO_GEOM"
              /\ ret.max_abs_err_px = None
              /\ ret.diff = None
        /\ (GeomGiven /\ ~QtGiven) =>
              /\ ret.status = "INVISIBLE"
              /\ ret.max_abs_err_px = None
              /\ ret.diff = None

\* Both bboxes absent (the observed one by a zero width): NO_GEOM wins.
C1_Witness ==
    /\ CompareDone
    /\ args.geom = None
    /\ args.qt.k = "tuple"
    /\ args.qt.items[3].n = 0
    /\ ret.status = "NO_GEOM"

\* C2: for two present bboxes and any thresholds, tol > warn included, the
\* status is PASS exactly when max_abs_err_px <= tol_abs_px.
C2_PassIffWithinTol ==
    (CompareDone /\ GeomGiven /\ QtGiven) =>
        /\ IsNum(ret.max_abs_err_px)
        /\ (ret.status = "PASS") <=> QLe(ret.max_abs_err_px, args.tol)

\* tol > warn and the error lies between them: PASS.
C2_Witness ==
    /\ CompareDone /\ GeomGiven /\ QtGiven
    /\ QLt(args.warn, args.tol)
    /\ QLt(args.warn, ret.max_abs_err_px)
    /\ QLe(ret.max_abs_err_px, args.tol)
    /\ ret.status = "PASS"

Rect(x, y, w, h) == Tup(<<Num(x), Num(y), Num(w), Num(h)>>)

AlignQtRects ==
    {None, Rect(0, 0, 0, 1), Rect(0, 0, 1, -1)} \cup
    {Rect(x, 0, w, h) : x \in 0..MaxPos, w \in 1..MaxSize, h \in 1..MaxSize}

AlignGeomBoxes ==
    {None, Tup(<<Num(0), Num(0), Num(1)>>), Tup(<<Junk, Num(0), Num(1), Num(1)>>),
     Tup(<<Num(0), Num(0), Num(1), Num(1), Num(7)>>)} \cup
    {Rect(x0, 0, x1, y1) : x0 \in 0..MaxPos, x1 \in 1..MaxSize, y1 \in 1..MaxSize} \cup
    {Rect(1, 0, 3, 2)}

RenderSizes == {Num(0), Num(2), Num(4)}

QtsvgViewboxes == {None, Rect(0, 0, 2, 2), Rect(0, 0, 4, 2)}

SvgeViewboxes ==
    {None, Rect(0, 0, 2, 2), Rect(1, 0, 2, 4), Rect(0, 0, 0, 2), Rect(1, 0, 2, 2)}

SvgeDocSizes == {None, Tup(<<Num(4), Num(2)>>), Tup(<<Num(1), Num(1)>>)}

AlignThresholds == {<<Num(0), Num(1)>>}

InitAlign ==
    /\ fn = "align_geom_bbox_to_qt"
    /\ \E th \in AlignThresholds :
          args \in [qt : AlignQtRects, geom : AlignGeomBoxes, render_px : RenderSizes,
                    qtsvg_viewbox : QtsvgViewboxes, svge_viewbox : SvgeViewboxes,
                    svge_doc_size : SvgeDocSizes, tol : {th[1]}, warn : {th[2]}]
    /\ ret = None
    /\ pc = "call"
    /\ clock = 0

call_align_geom_bbox_to_qt ==
    /\ pc = "call"
    /\ fn = "align_geom_bbox_to_qt"
    /\ ret' = align_geom_bbox_to_qt(args.qt, args.geom, args.render_px,
                  args.qtsvg_viewbox, args.svge_viewbox, args.svge_doc_size,
                  args.tol, args.warn)
    /\ pc' = "done"
    /\ clock' = clock + 1
    /\ UNCHANGED <<fn, args>>

SpecAlign == InitAlign /\ [][call_align_geom_bbox_to_qt]_vars

(***************************************************************************)
(* Claims about align_geom_bbox_to_qt (checked under SpecAlign).           *)
(***************************************************************************)
AlignDone == pc = "done" /\ fn = "align_geom_bbox_to_qt"

\* The call went on to score: the geometry argument has four leading numbers
\* and the observed argument is not None.
AlignScored ==
    /\ AlignDone
    /\ args.qt # None
    /\ args.geom.k = "tuple"
    /\ Len(args.geom.items) >= 4
    /\ \A i \in 1..4 : IsNum(args.geom.items[i])

\* Position of a candidate kind in the order of generation.
KindRank(kind) ==
    CASE kind = "raw" -> 1
      [] kind = "qtsvg_viewbox_keep" -> 2
      [] kind = "qtsvg_viewbox_stretch" -> 3
      [] kind = "svge_viewbox_keep" -> 4
      [] kind = "svge_viewbox_stretch" -> 5
      [] kind = "svge_docsize_keep" -> 6
      [] kind = "svge_docsize_stretch" -> 7

\* The geometry corner pair under a recorded transform.
Applied(tr) ==
    LET g == args.geom.items
    IN  Tup(<<QAdd(QMul(g[1], tr.scale_x), tr.tx), QAdd(QMul(g[2], tr.scale_y), tr.ty),
              QAdd(QMul(g[3], tr.scale_x), tr.tx), QAdd(QMul(g[4], tr.scale_y), tr.ty)>>)

\* The ranking scalar of a recorded candidate.
EntryScore(e) == IF e.max_abs_err_px = None THEN Inf ELSE e.max_abs_err_px

\* C4: the chosen candidate has the minimum max_abs_err_px of all generated
\* candidates, and among those with the minimum it is the first in generation
\* order; the returned bbox is its transform applied to the geometry bbox and
\* info.chosen is its kind.
C4_MinErrorFirstWins ==
    AlignScored =>
        \E j \in DOMAIN ret.info.candidates :
            LET c == ret.info.candidates[j]
            IN  /\ ret.info.chosen = c.kind
                /\ ret.info.transform = c.transform
                /\ ret.bbox = Applied(c.transform)
                /\ \A i \in DOMAIN ret.info.candidates :
                      LET o == ret.info.candidates[i]
                      IN  /\ ~ScoreLt(EntryScore(o), EntryScore(c))
                          /\ (i # j /\ ~ScoreLt(EntryScore(c), EntryScore(o)))
                                => /\ j < i
                                   /\ KindRank(c.kind) < KindRank(o.kind)

\* A viewport candidate wins a tie against a later candidate and beats raw.
C4_Witness ==
    /\ AlignScored
    /\ ret.info.chosen = "qtsvg_viewbox_keep"
    /\ \E i \in DOMAIN ret.info.candidates :
          /\ ret.info.candidates[i].kind = "svge_docsize_stretch"
          /\ ret.info.candidates[i].max_abs_err_px = ret.info.candidates[2].max_abs_err_px
    /\ ret.info.candidates[1].max_abs_err_px # None
    /\ QLt(ret.info.candidates[2].max_abs_err_px, ret.info.candidates[1].max_abs_err_px)

\* The observed argument is absent for the comparator: None, or a rect of
\* non-positive width or height.
AlignQtAbsent ==
    \/ args.qt = None
    \/ args.qt.items[3].n <= 0
    \/ args.qt.items[4].n <= 0

\* The geometry argument is absent for the comparator: None or not a tuple of
\* exactly four numbers.
AlignGeomAbsent ==
    \/ args.geom = None
    \/ Len(args.geom.items) # 4
    \/ \E i \in 1..4 : ~IsNum(args.geom.items[i])

ShortCircuited ==
    /\ ret.bbox = args.geom
    /\ ret.info.chosen = "raw"
    /\ "note" \in DOMAIN ret.info
    /\ ret.info.candidates = <<>>

Item(svg, status, err) ==
    [k |-> "dict", svg |-> svg, status |-> status, max_abs_err_px |-> err]

ComparatorStatuses == {"PASS", "WARN", "FAIL", "INVISIBLE", "NO_GEOM"}

RankStatuses ==
    {Str(s) : s \in ComparatorStatuses \cup {"warn", " FAIL ", "FAIL_ALIGN"}}

RankErrs == {None, Num(0), Num(1)}

\* The item at position i of a ranked list: its svg names its position.
RankSvg == <<Str("a.svg"), Str("b.svg"), Str("c.svg"), Str("d.svg")>>

RankItemsAt(i) == {Item(RankSvg[i], st, e) : st \in RankStatuses, e \in RankErrs}

RankLists ==
    UNION {{s \in [1..n -> UNION {RankItemsAt(i) : i \in 1..n}] :
               \A i \in 1..n : s[i] \in RankItemsAt(i)} : n \in 0..MaxItems}

RankLimits == {None} \cup {Num(n) : n \in 0..MaxItems}

InitRank ==
    /\ fn = "rank_items"
    /\ args \in [items : RankLists, include_no_geom : BOOLEAN, limit : RankLimits]
    /\ ret = None
    /\ pc = "call"
    /\ clock = 0

call_rank_items ==
    /\ pc = "call"
    /\ fn = "rank_items"
    /\ ret' = rank_items(args.items, args.include_no_geom, args.limit)
    /\ pc' = "done"
    /\ clock' = clock + 1
    /\ UNCHANGED <<fn, args>>

SpecRank == InitRank /\ [][call_rank_items]_vars

ReportStatuses ==
    {Str(s) : s \in ComparatorStatuses \cup {"warn", "FAIL_ALIGN"}} \cup {None}

\* Errors in halves, so that a delta of exactly the default err_eps occurs.
ReportErrs == {None, Num(0), Q(1, 2), Num(1)}

BaselineFirst ==
    {Item(svg, st, e) : svg \in {Str("a.svg"), Str("A.svg"), Str("d\\a.svg"), None},
                        st \in ReportStatuses, e \in ReportErrs}

CurrentFirst ==
    {Item(svg, st, e) : svg \in {Str("a.svg"), Str("d/a.svg"), None},
                        st \in ReportStatuses, e \in ReportErrs}

\* The rest of a baseline report and of a current report.
BaselineRest ==
    <<Item(Str("b.svg"), Str("WARN"), Num(0)),
      Item(Str("./a.svg"), Str("FAIL"), Num(1)),
      Item(Str("c.svg"), Str("PASS"), Num(0)),
      Item(Str("b.svg"), Str("PASS"), None)>>

CurrentRest ==
    <<Item(Str("b.svg"), Str("FAIL"), Q(1, 2)),
      Item(Str("d/a.svg"), Str("WARN"), Num(0)),
      Item(Str("A.svg"), Str("INVISIBLE"), None),
      Item(Str("c.svg"), Str("NO_GEOM"), None)>>

ReportLists(first, rest) ==
    {<<>>} \cup {<<f>> \o SubSeq(rest, 1, n) : f \in first, n \in 0..(MaxItems - 1)}

\* A baseline report and a current report that list one file twice.
BaselineTwice ==
    <<Item(Str("a.svg"), Str("WARN"), Num(0)), Item(Str("./a.svg"), Str("FAIL"), Num(1))>>

CurrentTwice ==
    <<Item(Str("./a.svg"), Str("PASS"), Num(0)), Item(Str("a.svg"), Str("FAIL"), Num(1))>>

OsNames == {"posix", "nt"}

\* The default err_eps.
ErrEps == {Q(1, 2)}

InitReports ==
    /\ fn = "compare_reports"
    /\ args \in [os_name : OsNames,
                 baseline_items : ReportLists(BaselineFirst, BaselineRest) \cup {BaselineTwice},
                 current_items : ReportLists(CurrentFirst, CurrentRest) \cup {CurrentTwice},
                 err_eps : ErrEps]
    /\ ret = None
    /\ pc = "call"
    /\ clock = 0

call_compare_reports ==
    /\ pc = "call"
    /\ fn = "compare_reports"
    /\ ret' = compare_reports(args.os_name, clock, args.baseline_items,
                  args.current_items, args.err_eps)
    /\ pc' = "done"
    /\ clock' = clock + 1
    /\ UNCHANGED <<fn, args>>

SpecReports == InitReports /\ [][call_compare_reports]_vars

(***************************************************************************)
(* Claims about compare_reports (checked under SpecReports).               *)
(***************************************************************************)
ReportsDone == pc = "done" /\ fn = "compare_reports"
ReportsReturned == ReportsDone /\ ret # Raised

KeysOf(items) == {item_key(args.os_name, items[i]) : i \in DOMAIN items}
BaselineKeys == KeysOf(args.baseline_items)
CurrentKeys == KeysOf(args.current_items)
MatchedKeys == BaselineKeys \cap CurrentKeys

\* The item a report holds for a key: the last one listed under it.
ItemOf(items, kk) ==
    LET at == {i \in DOMAIN items : item_key(args.os_name, items[i]) = kk}
    IN  items[CHOOSE i \in at : \A j \in at : j <= i]

\* The severity order the claims state, PASS < WARN < FAIL < INVISIBLE; a
\* status text outside these four has the severity the code gives it.
NamedSeverity(s) ==
    CASE s = "PASS" -> 0
      [] s = "WARN" -> 1
      [] s = "FAIL" -> 2
      [] s = "INVISIBLE" -> 3
      [] OTHER -> status_severity(Str(s))

\* The class C6 states for a baseline item b and a current item c.
StatedClass(b, c, eps) ==
    LET bs == Upper(StatusText(b.status))
        cs == Upper(StatusText(c.status))
        known == IsNum(b.max_abs_err_px) /\ IsNum(c.max_abs_err_px)
        diff == QSub(c.max_abs_err_px, b.max_abs_err_px)
        same == NamedSeverity(cs) = NamedSeverity(bs)
    IN  IF bs = "NO_GEOM" \/ cs = "NO_GEOM" THEN "unchanged"
        ELSE IF NamedSeverity(cs) > NamedSeverity(bs) THEN "regression"
        ELSE IF same /\ known /\ QLt(eps, diff) THEN "regression"
        ELSE IF NamedSeverity(cs) < NamedSeverity(bs) THEN "improvement"
        ELSE IF same /\ known /\ QLt(diff, QNeg(eps)) THEN "improvement"
        ELSE "unchanged"

ClassOfKey(kk) ==
    StatedClass(ItemOf(args.baseline_items, kk), ItemOf(args.current_items, kk),
                args.err_eps)

\* How many entries of a result list belong to key kk.
EntriesOf(list, kk) ==
    Cardinality({i \in DOMAIN list : norm_svg_key(args.os_name, list[i].svg) = kk})

\* C6: every key present in both reports is classified into exactly one of
\* regression, improvement, unchanged: unchanged if either status is NO_GEOM;
\* else regression if the current severity is higher, or the severities are
\* equal and current error - baseline error > err_eps; improvement if the
\* current severity is lower, or equal and the difference < -err_eps; else
\* unchanged (a difference of exactly err_eps, or an unknown error, included).
C6_ClassifiesMatchedKeys ==
    ReportsReturned =>
        /\ \A kk \in MatchedKeys :
              /\ EntriesOf(ret.regressions, kk) =
                     (IF ClassOfKey(kk) = "regression" THEN 1 ELSE 0)
              /\ EntriesOf(ret.improvements, kk) =
                     (IF ClassOfKey(kk) = "improvement" THEN 1 ELSE 0)
        /\ ret.counts.unchanged =
               Cardinality({kk \in MatchedKeys : ClassOfKey(kk) = "unchanged"})
        /\ Len(ret.regressions) + Len(ret.improvements) + ret.counts.unchanged
               = Cardinality(MatchedKeys)

\* Two matched keys: one of equal severity whose error grew by exactly
\* err_eps (unchanged), one whose severity grew (a regression).
C6_Witness ==
    /\ ReportsReturned
    /\ \E kk \in MatchedKeys :
          LET b == ItemOf(args.baseline_items, kk)
              c == ItemOf(args.current_items, kk)
          IN  /\ b.status = Str("WARN") /\ c.status = Str("warn")
              /\ IsNum(b.max_abs_err_px) /\ IsNum(c.max_abs_err_px)
              /\ QSub(c.max_abs_err_px, b.max_abs_err_px) = args.err_eps
    /\ ret.counts.unchanged = 1
    /\ Len(ret.regressions) = 1
    /\ ret.regressions[1].baseline_status = "WARN"
    /\ ret.regressions[1].current_status = "FAIL"

\* C9: missing is exactly the set of keys of the baseline that the current
\* run lacks, new is exactly the set of keys of the current run that the
\* baseline lacks, and a key present in both is in neither list.
C9_MissingAndNew ==
    ReportsReturned =>
        /\ {ret.missing[i] : i \in DOMAIN ret.missing} = BaselineKeys \ CurrentKeys
        /\ {ret.new[i] : i \in DOMAIN ret.new} = CurrentKeys \ BaselineKeys
        /\ Len(ret.missing) = Cardinality(BaselineKeys \ CurrentKeys)
        /\ Len(ret.new) = Cardinality(CurrentKeys \ BaselineKeys)
        /\ \A kk \in MatchedKeys :
              /\ \A i \in DOMAIN ret.missing : ret.missing[i] # kk
              /\ \A i \in DOMAIN ret.new : ret.new[i] # kk

\* A baseline-only key, a current-only key and a key of both, in one call.
C9_Witness ==
    /\ ReportsReturned
    /\ ret.missing = <<"A.svg">>
    /\ ret.new = <<"a.svg">>
    /\ MatchedKeys = {"b.svg"}
    /\ Len(ret.regressions) = 1

(***************************************************************************)
(* Claims about rank_items (checked under SpecRank).                       *)
(***************************************************************************)
RankDone == pc = "done" /\ fn = "rank_items"
RankReturned == RankDone /\ ret # Raised

\* The status of an item as the ranking reads it: trimmed, upper case.
StatusName(it) == Upper(Strip(StatusText(it.status)))

StatedActionable(it) ==
    \/ StatusName(it) \in {"WARN", "FAIL", "INVISIBLE"}
    \/ (args.include_no_geom /\ StatusName(it) = "NO_GEOM")

Occurrences(list, it) == Cardinality({i \in DOMAIN list : list[i] = it})

\* The whole ranking of the call's items: the call without a limit.
WholeRanking == rank_items(args.items, args.include_no_geom, None).items

\* C7: the result holds exactly the items whose status is WARN, FAIL or
\* INVISIBLE (and NO_GEOM only when include_no_geom), each once, never a PASS
\* item; with limit = n >= 0 it is the first n items of that ranking, with
\* limit = None the whole ranking.
C7_ExactlyActionable ==
    RankReturned =>
        /\ \A i \in DOMAIN ret.items :
              /\ StatedActionable(ret.items[i])
              /\ StatusName(ret.items[i]) # "PASS"
              /\ Occurrences(args.items, ret.items[i]) = 1
              /\ Occurrences(ret.items, ret.items[i]) = 1
        /\ args.limit = None =>
              /\ \A i \in DOMAIN args.items :
                    StatedActionable(args.items[i]) =>
                        Occurrences(ret.items, args.items[i]) = 1
              /\ ret.items = WholeRanking
        /\ (IsNum(args.limit) /\ args.limit.n >= 0) =>
              ret.items = SubSeq(WholeRanking, 1,
                              IF args.limit.n < Len(WholeRanking)
                              THEN args.limit.n ELSE Len(WholeRanking))

\* Two actionable items and a limit of one: the result is the first of the
\* ranking, which is not the first of the input.
C7_Witness ==
    /\ RankReturned
    /\ args.limit = Num(1)
    /\ Len(WholeRanking) = 2
    /\ Len(ret.items) = 1
    /\ ret.items[1] = args.items[2]

NoNumericError(it) == ~IsNum(it.max_abs_err_px)

\* Item x may stand before item y in a list sorted as C8 states.
StatedOrder(x, y) ==
    LET sx == NamedSeverity(StatusName(x))
        sy == NamedSeverity(StatusName(y))
    IN  \/ sx > sy
        \/ /\ sx = sy
           /\ (~NoNumericError(x) /\ ~NoNumericError(y)) =>
                  QLe(y.max_abs_err_px, x.max_abs_err_px)
           /\ (StatusName(y) = "INVISIBLE" /\ NoNumericError(y)) =>
                  (StatusName(x) = "INVISIBLE" /\ NoNumericError(x))
           /\ (NoNumericError(x) /\ StatusName(x) # "INVISIBLE") =>
                  NoNumericError(y)

\* C8: the result is sorted descending by (severity, error): INVISIBLE before
\* FAIL before WARN; within a severity the larger error first, an INVISIBLE
\* item without a numeric error before every other item of its tier, any
\* other item without a numeric error after every item of its tier that has
\* one.
C8_SortedBySeverityThenError ==
    RankReturned =>
        \A i, j \in DOMAIN ret.items :
            i < j => StatedOrder(ret.items[i], ret.items[j])

\* An INVISIBLE item without an error, listed after an INVISIBLE item with
\* one, comes out first.
C8_Witness ==
    /\ RankReturned
    /\ Len(ret.items) = 2
    /\ ret.items[1] = args.items[2]
    /\ StatusName(ret.items[1]) = "INVISIBLE"
    /\ NoNumericError(ret.items[1])
    /\ StatusName(ret.items[2]) = "INVISIBLE"
    /\ ~NoNumericError(ret.items[2])

(***************************************************************************)
(* Inputs of the entry points when a caller hands them garbage: a text     *)
(* where a number is expected, a list item that is not a dict, an argument *)
(* that is not a path.                                                     *)
(***************************************************************************)
GarbageNumbers == {Num(1), Junk, None}

GarbageLists ==
    {<<>>, <<Junk>>,
     <<Item(Str("a.svg"), Str("WARN"), Num(1))>>,
     <<Item(Str("a.svg"), Str("FAIL"), Num(0))>>,
     <<Item(Str("a.svg"), Str("FAIL"), Num(0)), Junk>>}

ReportFiles ==
    {Unreadable, Junk, Tup(<<Item(Str("a.svg"), Str("WARN"), Num(1)), Junk>>),
     [k |-> "dict", items |-> Tup(<<Junk, Item(Str("a.svg"), Str("FAIL"), None)>>)],
     [k |-> "dict", items |-> Junk], Item(Str("a.svg"), Str("PASS"), Num(0))}

InitTotal ==
    /\ \/ /\ fn = "compare_bboxes"
          /\ args \in [qt : {None, Junk, Rect(0, 0, 1, 1)},
                       geom : {None, Junk, Tup(<<Num(0), Num(0), Num(1), Num(1)>>)},
                       tol : GarbageNumbers, warn : GarbageNumbers]
       \/ /\ fn = "align_geom_bbox_to_qt"
          /\ args \in [qt : {None, Junk, Rect(0, 0, 1, 1)},
                       geom : {None, Junk, Tup(<<Num(0), Num(0), Num(1), Num(1)>>)},
                       render_px : GarbageNumbers,
                       qtsvg_viewbox : {None, Junk}, svge_viewbox : {None},
                       svge_doc_size : {None, Junk},
                       tol : {Num(1), Junk}, warn : {Num(1)}]
       \/ /\ fn = "rank_items"
          /\ args \in [items : GarbageLists, include_no_geom : BOOLEAN,
                       limit : {None, Junk, Num(1), Num(-1)}]
       \/ /\ fn = "compare_reports"
          /\ args \in [os_name : OsNames, baseline_items : GarbageLists,
                       current_items : GarbageLists, err_eps : {Q(1, 2), Junk}]
       \/ /\ fn = "build_repro_cmd"
          /\ args \in [svg_path : {Str("a.svg"), None}, out_dir : {Str("out")},
                       modes : {Tup(<<Str("qtsvg"), Str("svgelements")>>),
                                Tup(<<Num(1)>>), None},
                       size_px : GarbageNumbers, render_scale : {Num(1), Junk},
                       bbox_tol : {Num(1), Junk}, bbox_warn : {Num(1)},
                       recursive : {None, Num(1)}]
       \/ /\ fn = "load_bbox_report"
          /\ args \in [path : {Str("report.json"), None, Num(1)}, data : ReportFiles]
    /\ ret = None
    /\ pc = "call"
    /\ clock = 0

call_build_repro_cmd ==
    /\ pc = "call"
    /\ fn = "build_repro_cmd"
    /\ ret' = build_repro_cmd(args.svg_path, args.out_dir, args.modes, args.size_px,
                  args.render_scale, args.bbox_tol, args.bbox_warn, args.recursive)
    /\ pc' = "done"
    /\ clock' = clock + 1
    /\ UNCHANGED <<fn, args>>

call_load_bbox_report ==
    /\ pc = "call"
    /\ fn = "load_bbox_report"
    /\ ret' = load_bbox_report(args.path, args.data)
    /\ pc' = "done"
    /\ clock' = clock + 1
    /\ UNCHANGED <<fn, args>>

NextTotal ==
    \/ call_compare_bboxes
    \/ call_align_geom_bbox_to_qt
    \/ call_rank_items
    \/ call_compare_reports
    \/ call_build_repro_cmd
    \/ call_load_bbox_report

SpecTotal == InitTotal /\ [][NextTotal]_vars

(***************************************************************************)
(* Claim about every entry point (checked under SpecTotal).                *)
(***************************************************************************)
\* C10: every public entry point is total: for any input, garbage included,
\* it returns a result and never raises.
C10_NeverRaises == pc = "done" => ret # Raised

(***************************************************************************)
(* Inputs of compare_bboxes with malformed bbox arguments and numeric      *)
(* thresholds.                                                             *)
(***************************************************************************)
MalformedQtRects ==
    {None, Junk, Str(""), Num(5), Tup(<<>>),
     Tup(<<Num(0), Num(0), Num(1)>>),
     Tup(<<Num(0), Num(0), Num(1), Num(1), Num(1)>>),
     Tup(<<Junk, Num(0), Num(1), Num(1)>>),
     Tup(<<Num(0), Num(0), Junk, Num(1)>>),
     Tup(<<Num(0), Num(0), Num(1), None>>),
     Tup(<<Num(0), Num(0), Num(1), Num(1)>>),
     Tup(<<Num(1), Num(0), Num(2), Num(2)>>)}

MalformedGeomBoxes ==
    {None, Junk, Num(5), Tup(<<>>),
     Tup(<<Num(0), Num(0), Num(1)>>),
     Tup(<<Num(0), Num(0), Num(1), Num(1), Num(1)>>),
     Tup(<<Num(0), Num(0), Junk, Num(1)>>),
     Tup(<<None, Num(0), Num(1), Num(1)>>),
     Item(Str("a.svg"), Str("PASS"), Num(0)),
     Tup(<<Num(0), Num(0), Num(1), Num(1)>>),
     Tup(<<Num(0), Num(0), Num(3), Num(3)>>)}

InitMalformed ==
    /\ fn = "compare_bboxes"
    /\ args \in [qt : MalformedQtRects, geom : MalformedGeomBoxes,
                 tol : Thresholds, warn : Thresholds]
    /\ ret = None
    /\ pc = "call"
    /\ clock = 0

SpecMalformed == InitMalformed /\ [][call_compare_bboxes]_vars

(***************************************************************************)
(* Claims about malformed and degenerate bboxes.                           *)
(***************************************************************************)
\* The value is a list/tuple of exactly four numbers.
FourNumbers(v) ==
    /\ v.k = "tuple"
    /\ Len(v.items) = 4
    /\ \A i \in 1..4 : IsNum(v.items[i])

C12_DegenerateGeomIsAbsent ==
    (CompareDone /\ GeomGiven /\ QtGiven) =>
        ((args.geom.items[3].n <= args.geom.items[1].n
          \/ args.geom.items[4].n <= args.geom.items[2].n)
            => ret.status = "NO_GEOM")

(***************************************************************************)
(* Claims about the keys of compare_reports (checked under SpecReports).   *)
(***************************************************************************)
\* A path with its letters in lower case and / as the separator.
FoldPath(p) ==
    CASE p = "A.svg" -> "a.svg"
      [] p = "d\\a.svg" -> "d/a.svg"
      [] OTHER -> p

\* Two svg values that name paths differing at most in letter case or in the
\* separator.
SameFile(a, b) == a.k = "str" /\ b.k = "str" /\ FoldPath(a.s) = FoldPath(b.s)

InList(list, x) == \E i \in DOMAIN list : list[i] = x

\* C13: a baseline item and a current item whose svg paths differ only in
\* letter case or in the separator are matched as one file: they share a key,
\* which is neither missing nor new.
C13_CaseSeparatorInsensitive ==
    ReportsReturned =>
        \A i \in DOMAIN args.baseline_items, j \in DOMAIN args.current_items :
            SameFile(args.baseline_items[i].svg, args.current_items[j].svg) =>
                /\ item_key(args.os_name, args.baseline_items[i])
                       = item_key(args.os_name, args.current_items[j])
                /\ ~InList(ret.missing, item_key(args.os_name, args.baseline_items[i]))
                /\ ~InList(ret.new, item_key(args.os_name, args.current_items[j]))

\* An entry C14 forces to the top: current status INVISIBLE, or delta unknown.
ForcedToTop(e) == e.current_status = "INVISIBLE" \/ e.delta_max_abs_err_px = None

\* Entry x may stand before entry y in the order C14 states.
StatedRegressionOrder(x, y) ==
    /\ ForcedToTop(y) => ForcedToTop(x)
    /\ (~ForcedToTop(x) /\ ~ForcedToTop(y)) =>
          \/ NamedSeverity(x.current_status) > NamedSeverity(y.current_status)
          \/ /\ NamedSeverity(x.current_status) = NamedSeverity(y.current_status)
             /\ QLe(y.delta_max_abs_err_px, x.delta_max_abs_err_px)

\* C14: the regressions are sorted descending by (current severity, delta),
\* and every entry whose current status is INVISIBLE or whose delta is
\* unknown stands before every entry with a known delta and a non-INVISIBLE
\* current status.
C14_RegressionsSorted ==
    ReportsReturned =>
        \A i, j \in DOMAIN ret.regressions :
            i < j => StatedRegressionOrder(ret.regressions[i], ret.regressions[j])

(***************************************************************************)
(* Inputs of normalize_svg_viewport: a path or a value that is none, and    *)
(* what the file holds.                                                    *)
(***************************************************************************)
LengthTexts ==
    {None, Str(""), Str("abc"),
     LenText(Num(100), ""), LenText(Num(100), "px"), LenText(Num(50), "Px"),
     LenText(Num(-10), ""), LenText(Num(0), "mm"), LenText(Num(-1), "in"),
     LenText(Q(127, 5), "mm"), LenText(Q(127, 5), "MM"), LenText(Num(10), "mm"),
     LenText(Q(127, 50), "cm"), LenText(Num(1), "in"), LenText(Num(2), "in"),
     LenText(Num(72), "pt"), LenText(Num(6), "pc"),
     LenText(Num(50), "%"), LenText(Num(10), "em")}

ViewBoxTexts ==
    {None, Str(""), Str("junk"),
     VbText(<<Num(0), Num(0), Num(200), Num(100)>>),
     VbText(<<Num(-10), Num(-10), Num(96), Num(192)>>),
     VbText(<<Num(0), Num(0), Num(0), Num(100)>>),
     VbText(<<Num(0), Num(0), Num(5), Num(-5)>>),
     VbText(<<Num(0), Num(0), Num(200)>>),
     VbText(<<Num(0), Num(0), Junk, Num(100)>>)}

SvgFiles ==
    {ReadError, ParseError} \cup
    {Root(w, h, vb) : w \in LengthTexts, h \in LengthTexts, vb \in ViewBoxTexts}

SvgPaths == {Str("a.svg"), None}

InitViewport ==
    /\ fn = "normalize_svg_viewport"
    /\ args \in [svg_path : SvgPaths, file : SvgFiles]
    /\ ret = None
    /\ pc = "call"
    /\ clock = 0

call_normalize_svg_viewport ==
    /\ pc = "call"
    /\ fn = "normalize_svg_viewport"
    /\ ret' = normalize_svg_viewport(args.svg_path, args.file)
    /\ pc' = "done"
    /\ clock' = clock + 1
    /\ UNCHANGED <<fn, args>>

SpecViewport == InitViewport /\ [][call_normalize_svg_viewport]_vars

(***************************************************************************)
(* Claims about normalize_svg_viewport (checked under SpecViewport).       *)
(***************************************************************************)
ViewportDone == pc = "done" /\ fn = "normalize_svg_viewport"
ViewportOfRoot == ViewportDone /\ ret # Raised /\ args.file.k = "root"

\* A width or height text that parses to a number, and one that is a
\* percentage.
ParsesToNumber(s) == s.k = "lentext"
IsPercentage(s) == s.k = "lentext" /\ s.u = "%"

\* The unit of a length text as the claims name it, in lower case.
StatedUnit(s) ==
    CASE s.u = "MM" -> "mm"
      [] s.u = "Px" -> "px"
      [] OTHER -> s.u

\* The px of a length text at 96 px per inch, as C19 states it; the number
\* of a length in a unit outside the list is taken as is.
StatedPx(s) ==
    CASE StatedUnit(s) = "in" -> QMul(s.v, Num(96))
      [] StatedUnit(s) = "mm" -> QMul(QDiv(s.v, Q(127, 5)), Num(96))
      [] StatedUnit(s) = "cm" -> QMul(QDiv(s.v, Q(127, 50)), Num(96))
      [] StatedUnit(s) = "pt" -> QMul(QDiv(s.v, Num(72)), Num(96))
      [] StatedUnit(s) = "pc" -> QMul(QDiv(s.v, Num(6)), Num(96))
      [] OTHER -> s.v

\* A viewBox text of four numbers with a positive width and height.
ValidViewBox(s) ==
    /\ s.k = "vbtext"
    /\ Len(s.parts) = 4
    /\ \A i \in 1..4 : IsNum(s.parts[i])
    /\ QLt(Num(0), s.parts[3])
    /\ QLt(Num(0), s.parts[4])

DirectSize(file) ==
    /\ ParsesToNumber(file.width) /\ ~IsPercentage(file.width)
    /\ ParsesToNumber(file.height) /\ ~IsPercentage(file.height)

\* C15: the document size is resolved by priority: (1) width and height both
\* parse to a number and neither is a percentage: doc_w, doc_h are those
\* lengths in px; (2) otherwise, with a valid viewBox: the viewBox width and
\* height; (3) otherwise 0, 0.  With width and height absent and viewBox
\* "0 0 200 100": doc_w = 200, doc_h = 100, ppi = 96.
C15_DocSizePriority ==
    ViewportOfRoot =>
        /\ DirectSize(args.file) =>
              /\ ret.doc_w = StatedPx(args.file.width)
              /\ ret.doc_h = StatedPx(args.file.height)
        /\ (~DirectSize(args.file) /\ ValidViewBox(args.file.viewBox)) =>
              /\ ret.doc_w = args.file.viewBox.parts[3]
              /\ ret.doc_h = args.file.viewBox.parts[4]
        /\ (~DirectSize(args.file) /\ ~ValidViewBox(args.file.viewBox)) =>
              /\ ret.doc_w = Num(0)
              /\ ret.doc_h = Num(0)
        /\ (/\ args.file.width = None
            /\ args.file.height = None
            /\ args.file.viewBox = VbText(<<Num(0), Num(0), Num(200), Num(100)>>)) =>
              /\ ret.doc_w = Num(200)
              /\ ret.doc_h = Num(100)
              /\ ret.ppi = Num(96)

\* A width in mm beside a percentage height, with a viewBox: the size is the
\* viewBox's, not the width's.
C15_Witness ==
    /\ ViewportOfRoot
    /\ args.file.width = LenText(Num(10), "mm")
    /\ args.file.height = LenText(Num(50), "%")
    /\ args.file.viewBox = VbText(<<Num(0), Num(0), Num(200), Num(100)>>)
    /\ ret.doc_w = Num(200)
    /\ ret.doc_h = Num(100)

\* A width or height text in one of the physical units mm, cm, in, pt, pc.
IsPhysical(s) == s.k = "lentext" /\ StatedUnit(s) \in {"mm", "cm", "in", "pt", "pc"}

\* The per-axis estimate viewBox_extent / length_in_inches is available for a
\* physical length above zero.
EstimateAvailable(s) == IsPhysical(s) /\ QLt(Num(0), s.v)

StatedEstimate(s, extent) == QDiv(extent, QDiv(StatedPx(s), Num(96)))

StatedPpi(file) ==
    LET ex == StatedEstimate(file.width, file.viewBox.parts[3])
        ey == StatedEstimate(file.height, file.viewBox.parts[4])
    IN  CASE EstimateAvailable(file.width) /\ EstimateAvailable(file.height) ->
                 QDiv(QAdd(ex, ey), Num(2))
          [] EstimateAvailable(file.width) /\ ~EstimateAvailable(file.height) -> ex
          [] ~EstimateAvailable(file.width) /\ EstimateAvailable(file.height) -> ey
          [] OTHER -> Num(96)

\* C16: ppi differs from 96 only when a valid viewBox and at least one
\* physical-unit width or height are present; then ppi is the mean of the
\* available per-axis estimates viewBox_extent / length_in_inches; with px,
\* unitless or percentage sizes, or without a viewBox, ppi is 96.
C16_PpiEstimate ==
    ViewportOfRoot =>
        /\ ret.ppi # Num(96) =>
              /\ ValidViewBox(args.file.viewBox)
              /\ IsPhysical(args.file.width) \/ IsPhysical(args.file.height)
        /\ ValidViewBox(args.file.viewBox) => ret.ppi = StatedPpi(args.file)
        /\ ~ValidViewBox(args.file.viewBox) => ret.ppi = Num(96)
        /\ (~IsPhysical(args.file.width) /\ ~IsPhysical(args.file.height)) =>
              ret.ppi = Num(96)

\* A height of 2 in beside a width that is no physical length, over a viewBox
\* 100 high: the only estimate is 100 / 2 = 50.
C16_Witness ==
    /\ ViewportOfRoot
    /\ ~IsPhysical(args.file.width)
    /\ args.file.height = LenText(Num(2), "in")
    /\ args.file.viewBox = VbText(<<Num(0), Num(0), Num(200), Num(100)>>)
    /\ ret.ppi = Num(50)

\* C17: for the path of an unreadable file or of malformed XML the call does
\* not raise and returns a zeroed viewport: doc_w = doc_h = 0, viewbox
\* absent, ppi = 96, units "unknown", and an error note in raw.
C17_FailureIsZeroed ==
    (ViewportDone /\ args.svg_path.k = "str" /\ args.file \in {ReadError, ParseError}) =>
        /\ ret # Raised
        /\ ret.k = "viewport"
        /\ ret.doc_w = Num(0)
        /\ ret.doc_h = Num(0)
        /\ ret.viewbox = None
        /\ ret.ppi = Num(96)
        /\ ret.units = "unknown"
        /\ "error" \in DOMAIN ret.raw

\* Malformed XML: the result carries the parser's error and the path.
C17_Witness ==
    /\ ViewportDone
    /\ args.svg_path = Str("a.svg")
    /\ args.file = ParseError
    /\ ret.k = "viewport"
    /\ ret.raw.error = "parse"
    /\ ret.raw.path = args.svg_path
    /\ ret.doc_w = Num(0)

\* C18: every viewport the call returns, for any width, height and viewBox
\* attribute of the root element (signed numbers included), has doc_w >= 0,
\* doc_h >= 0, ppi > 0 and, when a viewbox is present, a viewbox width > 0
\* and height > 0.
C18_ViewportInvariant ==
    (ViewportDone /\ ret # Raised) =>
        /\ QLe(Num(0), ret.doc_w)
        /\ QLe(Num(0), ret.doc_h)
        /\ QLt(Num(0), ret.ppi)
        /\ ret.viewbox # None =>
              /\ QLt(Num(0), ret.viewbox.items[3])
              /\ QLt(Num(0), ret.viewbox.items[4])

\* C19: a width/height length in a supported unit becomes px at 96 px per
\* inch: unitless and px are taken as is, mm is divided by 25.4, cm by 2.54,
\* pt by 72, pc by 6, each times 96, so that 25.4mm, 72pt, 6pc, 2.54cm and
\* 1in all give 96 px; a percentage is never used as a direct document size.
C19_UnitsToPx ==
    ViewportOfRoot =>
        /\ (DirectSize(args.file) /\ StatedUnit(args.file.width) \in {"", "px"}) =>
              ret.doc_w = args.file.width.v
        /\ (DirectSize(args.file) /\ StatedUnit(args.file.height) \in {"", "px"}) =>
              ret.doc_h = args.file.height.v
        /\ (DirectSize(args.file) /\ IsPhysical(args.file.width)) =>
              ret.doc_w = StatedPx(args.file.width)
        /\ (DirectSize(args.file) /\ IsPhysical(args.file.height)) =>
              ret.doc_h = StatedPx(args.file.height)
        /\ (/\ DirectSize(args.file)
            /\ args.file.width \in
                   {LenText(Q(127, 5), "mm"), LenText(Num(72), "pt"), LenText(Num(6), "pc"),
                    LenText(Q(127, 50), "cm"), LenText(Num(1), "in")}) =>
              ret.doc_w = Num(96)
        /\ (IsPercentage(args.file.width) \/ IsPercentage(args.file.height)) =>
              \/ /\ ValidViewBox(args.file.viewBox)
                 /\ ret.doc_w = args.file.viewBox.parts[3]
                 /\ ret.doc_h = args.file.viewBox.parts[4]
              \/ /\ ~ValidViewBox(args.file.viewBox)
                 /\ ret.doc_w = Num(0)
                 /\ ret.doc_h = Num(0)

\* A width of 25.4 mm beside a height of 2.54 cm: 96 px each.
C19_Witness ==
    /\ ViewportOfRoot
    /\ args.file.width = LenText(Q(127, 5), "mm")
    /\ args.file.height = LenText(Q(127, 50), "cm")
    /\ ret.doc_w = Num(96)
    /\ ret.doc_h = Num(96)

(***************************************************************************)
(* Claim C20 about align_geom_bbox_to_qt (checked under SpecAlign).        *)
(***************************************************************************)
ViewportNames == {"qtsvg_viewbox", "svge_viewbox", "svge_docsize"}

\* (x, y, w, h) of a supplied viewport descriptor, a size having the origin
\* 0, 0; <<>> for a descriptor that is not supplied.
Descriptor(name) ==
    CASE name = "qtsvg_viewbox" ->
             IF args.qtsvg_viewbox = None THEN <<>> ELSE args.qtsvg_viewbox.items
      [] name = "svge_viewbox" ->
             IF args.svge_viewbox = None THEN <<>> ELSE args.svge_viewbox.items
      [] name = "svge_docsize" ->
             IF args.svge_doc_size = None THEN <<>>
             ELSE <<Num(0), Num(0)>> \o args.svge_doc_size.items

KeepKind(name) ==
    CASE name = "qtsvg_viewbox" -> "qtsvg_viewbox_keep"
      [] name = "svge_viewbox" -> "svge_viewbox_keep"
      [] name = "svge_docsize" -> "svge_docsize_keep"

StretchKind(name) ==
    CASE name = "qtsvg_viewbox" -> "qtsvg_viewbox_stretch"
      [] name = "svge_viewbox" -> "svge_viewbox_stretch"
      [] name = "svge_docsize" -> "svge_docsize_stretch"

\* The recorded candidates of a kind with zero error, and with another error
\* or none.
ZeroError(kind) ==
    \E i \in DOMAIN ret.info.candidates :
        /\ ret.info.candidates[i].kind = kind
        /\ ret.info.candidates[i].max_abs_err_px = Num(0)

NonZeroError(kind) ==
    \E i \in DOMAIN ret.info.candidates :
        /\ ret.info.candidates[i].kind = kind
        /\ ret.info.candidates[i].max_abs_err_px # Num(0)

\* The case of C20 for one descriptor: its size is the render target, the
\* geometry bbox is its extents, its stretch candidate has zero error and raw
\* has not.
MatchingViewport(name) ==
    /\ AlignScored
    /\ Descriptor(name) # <<>>
    /\ Descriptor(name)[3] = args.render_px
    /\ Descriptor(name)[4] = args.render_px
    /\ args.geom = Tup(<<Descriptor(name)[1], Descriptor(name)[2],
                         QAdd(Descriptor(name)[1], Descriptor(name)[3]),
                         QAdd(Descriptor(name)[2], Descriptor(name)[4])>>)
    /\ ZeroError(StretchKind(name))
    /\ NonZeroError("raw")

\* C20 as stated: given a viewport descriptor whose size equals the render
\* target and a geometry bbox equal to that viewport's extents, with zero
\* error for the stretch candidate and a non-zero error for raw, the chosen
\* candidate is that viewport's stretch candidate.
C20_StretchChosen ==
    \A name \in ViewportNames :
        MatchingViewport(name) => ret.info.chosen = StretchKind(name)

\* C20 amended: in that case the viewport's keep-aspect candidate has the
\* transform of its stretch candidate and zero error too; the chosen
\* candidate is the first candidate with zero error in generation order,
\* which is that keep-aspect candidate or a candidate before it, never raw
\* and never that viewport's stretch candidate; the returned bbox is the
\* observed rect's corner pair.
C20_KeepChosenBeforeStretch ==
    \A name \in ViewportNames :
        MatchingViewport(name) =>
            /\ ZeroError(KeepKind(name))
            /\ \E i, j \in DOMAIN ret.info.candidates :
                  /\ ret.info.candidates[i].kind = KeepKind(name)
                  /\ ret.info.candidates[j].kind = StretchKind(name)
                  /\ ret.info.candidates[i].transform = ret.info.candidates[j].transform
            /\ ZeroError(ret.info.chosen)
            /\ ret.info.chosen # "raw"
            /\ ret.info.chosen # StretchKind(name)
            /\ KindRank(ret.info.chosen) <= KindRank(KeepKind(name))
            /\ \A kind \in {"qtsvg_viewbox_keep", "qtsvg_viewbox_stretch",
                            "svge_viewbox_keep", "svge_viewbox_stretch",
                            "svge_docsize_keep", "svge_docsize_stretch"} :
                  (ZeroError(kind) /\ kind # ret.info.chosen) =>
                      KindRank(ret.info.chosen) < KindRank(kind)
            /\ ret.bbox = Tup(<<args.qt.items[1], args.qt.items[2],
                                QAdd(args.qt.items[1], args.qt.items[3]),
                                QAdd(args.qt.items[2], args.qt.items[4])>>)

\* The viewBox (1, 0, 2, 2) for a target of 2 px and the geometry
\* (1, 0, 3, 2): raw is off by 1, keep-aspect and stretch both by 0, and
\* keep-aspect is reported.
C20_Witness ==
    /\ MatchingViewport("svge_viewbox")
    /\ args.svge_viewbox = Rect(1, 0, 2, 2)
    /\ args.render_px = Num(2)
    /\ ret.info.candidates[1].max_abs_err_px = Num(1)
    /\ ret.info.chosen = "svge_viewbox_keep"

(***************************************************************************)
(* Inputs of the aligned comparison of _render_one: those of               *)
(* align_geom_bbox_to_qt, and a 400 x 200 document observed at 378 px.     *)
(***************************************************************************)
DocumentArgs ==
    [qt : {Rect(0, 0, 378, 189), Rect(0, 0, 378, 378)},
     geom : {Rect(0, 0, 400, 200)},
     render_px : {Num(378), Num(189)},
     qtsvg_viewbox : {None, Rect(0, 0, 400, 200)},
     svge_viewbox : {None, Rect(0, 0, 400, 200)},
     svge_doc_size : {None, Tup(<<Num(400), Num(200)>>)},
     tol : {Num(3)}, warn : {Num(8)}]

InitAligned ==
    /\ fn = "_render_one"
    /\ \/ args \in DocumentArgs
       \/ \E th \in AlignThresholds :
             args \in [qt : AlignQtRects, geom : AlignGeomBoxes, render_px : RenderSizes,
                       qtsvg_viewbox : QtsvgViewboxes, svge_viewbox : SvgeViewboxes,
                       svge_doc_size : SvgeDocSizes, tol : {th[1]}, warn : {th[2]}]
    /\ ret = None
    /\ pc = "call"
    /\ clock = 0

compare_aligned_geometry ==
    /\ pc = "call"
    /\ fn = "_render_one"
    /\ ret' = geom_compare(args.qt, args.geom, args.render_px, args.qtsvg_viewbox,
                  args.svge_viewbox, args.svge_doc_size, args.tol, args.warn)
    /\ pc' = "done"
    /\ clock' = clock + 1
    /\ UNCHANGED <<fn, args>>

SpecAligned == InitAligned /\ [][compare_aligned_geometry]_vars

(***************************************************************************)
(* Claims about the aligned comparison (checked under SpecAligned).        *)
(***************************************************************************)
AlignedDone == pc = "done" /\ fn = "_render_one" /\ ret # Raised

StretchKinds == {"qtsvg_viewbox_stretch", "svge_viewbox_stretch", "svge_docsize_stretch"}

ZeroErrorIn(candidates, kind) ==
    \E i \in DOMAIN candidates :
        candidates[i].kind = kind /\ candidates[i].max_abs_err_px = Num(0)

\* The 400 x 200 document with at least one viewport descriptor
\* (0, 0, 400, 200) supplied, observed as the rect qt.
DocumentCase(qt) ==
    /\ AlignedDone
    /\ args \in DocumentArgs
    /\ args.qt = qt
    /\ \/ args.qtsvg_viewbox # None
       \/ args.svge_viewbox # None
       \/ args.svge_doc_size # None

\* C21 as stated: observed (0,0,378,189), geometry (0,0,400,200) and a
\* viewport descriptor (0,0,400,200), aligned to the render target of the
\* 378 x 189 document: a stretch candidate is chosen, it maps the geometry
\* bbox to (0,0,378,189) exactly, and the final comparison is PASS.
C21_StretchMapsDocument ==
    DocumentCase(Rect(0, 0, 378, 189)) =>
        /\ ret.geom_align.chosen \in StretchKinds
        /\ ret.geom_bbox_xyxy = Tup(<<Num(0), Num(0), Num(378), Num(189)>>)
        /\ ret.status = "PASS"

\* C21 amended: the render target is the square render_px x render_px.  For
\* render_px = 378 the stretch candidate maps the geometry bbox onto the
\* whole square (0,0,378,378): with the observed rect (0,0,378,378) the
\* first supplied descriptor's stretch candidate is chosen, the mapping is
\* exact and the comparison is PASS; with the observed rect (0,0,378,189)
\* no candidate is exact, raw is chosen (error 22) and the comparison is
\* FAIL at tol 3, warn 8.
C21_StretchMapsOntoSquare ==
    /\ (DocumentCase(Rect(0, 0, 378, 378)) /\ args.render_px = Num(378)) =>
          /\ ret.geom_align.chosen \in StretchKinds
          /\ \A kind \in StretchKinds :
                ZeroErrorIn(ret.geom_align.candidates, kind) =>
                    KindRank(ret.geom_align.chosen) <= KindRank(kind)
          /\ ret.geom_bbox_xyxy = Tup(<<Num(0), Num(0), Num(378), Num(378)>>)
          /\ ret.max_abs_err_px = Num(0)
          /\ ret.status = "PASS"
    /\ DocumentCase(Rect(0, 0, 378, 189)) =>
          /\ ret.geom_align.chosen = "raw"
          /\ ret.geom_bbox_xyxy = Tup(<<Num(0), Num(0), Num(400), Num(200)>>)
          /\ ret.max_abs_err_px = Num(22)
          /\ ret.status = "FAIL"
          /\ \A i \in DOMAIN ret.geom_align.candidates :
                ret.geom_align.candidates[i].kind \in StretchKinds =>
                    ret.geom_align.candidates[i].max_abs_err_px = Num(189)

\* The document observed over the whole 378 px square, with the QtSvg
\* viewBox supplied: its stretch candidate is chosen and the result is PASS.
C21_Witness ==
    /\ DocumentCase(Rect(0, 0, 378, 378))
    /\ args.render_px = Num(378)
    /\ args.qtsvg_viewbox # None
    /\ ret.geom_align.chosen = "qtsvg_viewbox_stretch"
    /\ ret.status = "PASS"

(***************************************************************************)
(* Claims C22, C27 about the candidates of align_geom_bbox_to_qt (checked  *)
(* under SpecAlign).                                                       *)
(***************************************************************************)
\* A supplied descriptor with a positive width and height.
ValidDescriptor(name) ==
    /\ Descriptor(name) # <<>>
    /\ QLt(Num(0), Descriptor(name)[3])
    /\ QLt(Num(0), Descriptor(name)[4])

KindsOf(name) ==
    IF ValidDescriptor(name) THEN <<KeepKind(name), StretchKind(name)>> ELSE <<>>

\* The kinds C22 states, in their order.
StatedKinds ==
    <<"raw">> \o KindsOf("qtsvg_viewbox") \o KindsOf("svge_viewbox") \o KindsOf("svge_docsize")

RecordedKinds == [i \in DOMAIN ret.info.candidates |-> ret.info.candidates[i].kind]

IdentityTransform == [scale_x |-> Num(1), scale_y |-> Num(1), tx |-> Num(0), ty |-> Num(0)]

StatedGeneration ==
    /\ RecordedKinds = StatedKinds
    /\ ret.info.candidates[1].transform = IdentityTransform
    /\ Len(ret.info.candidates) =
           1 + 2 * Cardinality({name \in ViewportNames : ValidDescriptor(name)})
    /\ (\A name \in ViewportNames : Descriptor(name) = <<>>) =>
          /\ ret.bbox = Tup(SubSeq(args.geom.items, 1, 4))
          /\ ret.info.chosen = "raw"

\* C22 as stated: on every non-short-circuit call the candidates are raw,
\* then for each supplied descriptor (qtsvg viewBox, svgelements viewBox,
\* svgelements doc size) keep-aspect and stretch; a descriptor with a
\* non-positive width or height contributes none; the count is
\* 1 + 2 * (number of valid descriptors); with no descriptors the geometry
\* bbox is returned unchanged with chosen = "raw".
C22_CandidateOrder ==
    AlignScored => StatedGeneration

\* C22 amended: the same on every non-short-circuit call with a positive
\* render size; with a render size that is not positive no descriptor
\* contributes a candidate, raw is the only candidate, and the geometry bbox
\* is returned unchanged with chosen = "raw".
C22_CandidateOrderPositiveTarget ==
    /\ (AlignScored /\ QLt(Num(0), args.render_px)) => StatedGeneration
    /\ (AlignScored /\ ~QLt(Num(0), args.render_px)) =>
          /\ RecordedKinds = <<"raw">>
          /\ ret.info.candidates[1].transform = IdentityTransform
          /\ ret.bbox = Tup(SubSeq(args.geom.items, 1, 4))
          /\ ret.info.chosen = "raw"

\* Two valid descriptors around one of zero width: five candidates.
C22_Witness ==
    /\ AlignScored
    /\ QLt(Num(0), args.render_px)
    /\ args.svge_viewbox = Rect(0, 0, 0, 2)
    /\ RecordedKinds = <<"raw", "qtsvg_viewbox_keep", "qtsvg_viewbox_stretch",
                         "svge_docsize_keep", "svge_docsize_stretch">>

(***************************************************************************)
(* Claim C23 about compare_bboxes (checked under SpecCompare).             *)
(***************************************************************************)
\* The corner pair (x, y, x + w, y + h) of the observed rect.
ObservedCorners ==
    <<args.qt.items[1], args.qt.items[2],
      QAdd(args.qt.items[1], args.qt.items[3]),
      QAdd(args.qt.items[2], args.qt.items[4])>>

LargestOf(s) == CHOOSE v \in {s[i] : i \in DOMAIN s} : \A i \in DOMAIN s : QLe(s[i], v)

\* C23: for two present bboxes dx0, dy0, dx1, dy1 are observed corner minus
\* geometry corner, the observed rect (x, y, w, h) taken as
\* (x, y, x + w, y + h); dw = dx1 - dx0 and dh = dy1 - dy0;
\* max_abs_err_px = max(|dx0|, |dy0|, |dx1|, |dy1|), which is 0 exactly when
\* the two corner pairs are identical; observed (10,10,50,50) against
\* geometry (10,10,60,60) gives PASS with error 0 at tol = warn = 0.
C23_CornerDeltas ==
    (CompareDone /\ GeomGiven /\ QtGiven) =>
        /\ ret.qt_bbox_xyxy = Tup(ObservedCorners)
        /\ ret.diff.dx0 = QSub(ObservedCorners[1], args.geom.items[1])
        /\ ret.diff.dy0 = QSub(ObservedCorners[2], args.geom.items[2])
        /\ ret.diff.dx1 = QSub(ObservedCorners[3], args.geom.items[3])
        /\ ret.diff.dy1 = QSub(ObservedCorners[4], args.geom.items[4])
        /\ ret.diff.dw = QSub(ret.diff.dx1, ret.diff.dx0)
        /\ ret.diff.dh = QSub(ret.diff.dy1, ret.diff.dy0)
        /\ ret.max_abs_err_px =
               LargestOf(<<QAbs(ret.diff.dx0), QAbs(ret.diff.dy0),
                           QAbs(ret.diff.dx1), QAbs(ret.diff.dy1)>>)
        /\ (ret.max_abs_err_px = Num(0)) <=> (ObservedCorners = args.geom.items)
        /\ (/\ args.qt = Tup(<<Num(10), Num(10), Num(50), Num(50)>>)
            /\ args.geom = Tup(<<Num(10), Num(10), Num(60), Num(60)>>)
            /\ args.tol = Num(0)
            /\ args.warn = Num(0)) =>
              /\ ret.status = "PASS"
              /\ ret.max_abs_err_px = Num(0)

\* The example of the claim: identical extents at tol = warn = 0.
C23_Witness ==
    /\ CompareDone
    /\ args.qt = Tup(<<Num(10), Num(10), Num(50), Num(50)>>)
    /\ args.geom = Tup(<<Num(10), Num(10), Num(60), Num(60)>>)
    /\ args.tol = Num(0)
    /\ ret.status = "PASS"
    /\ ret.diff.dw = Num(0)

\* The recorded transform of a kind, applied to the viewport rectangle
\* (x, y, x + w, y + h) of descriptor d.
MappedViewport(tr, d) ==
    <<QAdd(QMul(d[1], tr.scale_x), tr.tx),
      QAdd(QMul(d[2], tr.scale_y), tr.ty),
      QAdd(QMul(QAdd(d[1], d[3]), tr.scale_x), tr.tx),
      QAdd(QMul(QAdd(d[2], d[4]), tr.scale_y), tr.ty)>>

SmallerOf(a, b) == IF QLe(a, b) THEN a ELSE b

\* What C27 states of a recorded stretch transform tr of descriptor d.
StatedStretch(tr, d, size) ==
    MappedViewport(tr, d) = <<Num(0), Num(0), size, size>>

\* What C27 states of a recorded keep-aspect transform tr of descriptor d.
StatedKeepAspect(tr, d, size) ==
    LET r == MappedViewport(tr, d)
    IN  /\ tr.scale_x = SmallerOf(QDiv(size, d[3]), QDiv(size, d[4]))
        /\ tr.scale_y = tr.scale_x
        /\ QLe(Num(0), r[1]) /\ QLe(r[3], size)
        /\ QLe(Num(0), r[2]) /\ QLe(r[4], size)
        /\ QAdd(r[1], r[3]) = size
        /\ QAdd(r[2], r[4]) = size
        /\ \/ (r[1] = Num(0) /\ r[3] = size)
           \/ (r[2] = Num(0) /\ r[4] = size)

\* C27: for every viewport descriptor (x, y, w, h) with w, h > 0 and render
\* size d > 0 the stretch transform maps the viewport rectangle
\* (x, y, x + w, y + h) exactly onto (0, 0, d, d); the keep-aspect transform
\* has the one scale min(d / w, d / h) and maps the viewport rectangle onto
\* a rectangle inside [0, d] x [0, d] with the centre (d / 2, d / 2) that
\* spans the whole destination on at least one axis.
C27_TransformsMapViewport ==
    (AlignScored /\ QLt(Num(0), args.render_px)) =>
        \A name \in ViewportNames :
            ValidDescriptor(name) =>
                /\ \E i \in DOMAIN ret.info.candidates :
                      ret.info.candidates[i].kind = StretchKind(name)
                /\ \E i \in DOMAIN ret.info.candidates :
                      ret.info.candidates[i].kind = KeepKind(name)
                /\ \A i \in DOMAIN ret.info.candidates :
                      /\ ret.info.candidates[i].kind = StretchKind(name) =>
                            StatedStretch(ret.info.candidates[i].transform,
                                Descriptor(name), args.render_px)
                      /\ ret.info.candidates[i].kind = KeepKind(name) =>
                            StatedKeepAspect(ret.info.candidates[i].transform,
                                Descriptor(name), args.render_px)

\* The viewBox (1, 0, 2, 4) in a target of 2 px: keep-aspect scales by 1/2
\* and leaves a margin left and right.
C27_Witness ==
    /\ AlignScored
    /\ args.render_px = Num(2)
    /\ args.svge_viewbox = Rect(1, 0, 2, 4)
    /\ \E i \in DOMAIN ret.info.candidates :
          /\ ret.info.candidates[i].kind = "svge_viewbox_keep"
          /\ ret.info.candidates[i].transform.scale_x = Q(1, 2)
          /\ MappedViewport(ret.info.candidates[i].transform, <<Num(1), Num(0), Num(2), Num(4)>>)
                 = <<Q(1, 2), Num(0), Q(3, 2), Num(2)>>

(***************************************************************************)
(* Claim C28 about compare_reports (checked under SpecReports).            *)
(***************************************************************************)
\* C28: the counts partition the keys: regressions + improvements +
\* unchanged + missing = baseline and regressions + improvements +
\* unchanged + new = current, where baseline and current count the distinct
\* normalized keys; an unloadable (empty) baseline gives baseline = 0, no
\* regression, improvement, unchanged or missing, and every current key new.
C28_CountsPartitionKeys ==
    ReportsReturned =>
        /\ ret.counts.baseline = Cardinality(BaselineKeys)
        /\ ret.counts.current = Cardinality(CurrentKeys)
        /\ ret.counts.regressions = Len(ret.regressions)
        /\ ret.counts.improvements = Len(ret.improvements)
        /\ ret.counts.new = Len(ret.new)
        /\ ret.counts.missing = Len(ret.missing)
        /\ ret.counts.regressions + ret.counts.improvements + ret.counts.unchanged
               + ret.counts.missing = ret.counts.baseline
        /\ ret.counts.regressions + ret.counts.improvements + ret.counts.unchanged
               + ret.counts.new = ret.counts.current
        /\ args.baseline_items = load_bbox_report(Str("baseline.json"), Unreadable).items =>
              /\ ret.counts.baseline = 0
              /\ ret.counts.regressions = 0
              /\ ret.counts.improvements = 0
              /\ ret.counts.unchanged = 0
              /\ ret.counts.missing = 0
              /\ {ret.new[i] : i \in DOMAIN ret.new} = CurrentKeys
              /\ ret.counts.new = Cardinality(CurrentKeys)

\* A baseline that lists one file twice against a current run of two files:
\* one key on the baseline side.
C28_Witness ==
    /\ ReportsReturned
    /\ args.baseline_items = BaselineTwice
    /\ Len(args.current_items) = 2
    /\ ret.counts.baseline = 1
    /\ ret.counts.current = 2
    /\ ret.counts.new = 1
    /\ ret.counts.missing = 0

(***************************************************************************)
(* Claim C29 about the aligned comparison (checked under SpecAligned).     *)
(***************************************************************************)
\* The call scored candidates: observed rect present, geometry of exactly
\* four numbers.
AlignedScored ==
    /\ AlignedDone
    /\ args.qt # None
    /\ args.geom.k = "tuple"
    /\ Len(args.geom.items) = 4
    /\ \A i \in 1..4 : IsNum(args.geom.items[i])

\* The comparison of the observed rect with the geometry bbox as given.
Unaligned == compare_bboxes(args.qt, args.geom, args.tol, args.warn)

\* The recorded candidate that was chosen.
ChosenEntry ==
    LET c == ret.geom_align.candidates
    IN  c[CHOOSE i \in DOMAIN c : c[i].kind = ret.geom_align.chosen]

\* Error a is no larger than error b (None only against None).
ErrLe(a, b) == IF a = None \/ b = None THEN a = b ELSE QLe(a, b)

\* C29: alignment never makes the comparison worse: for a present observed
\* rect and a geometry bbox of four numbers, with any descriptors, the error
\* of the comparison with the aligned bbox is the error recorded for the
\* chosen candidate, it is no larger than the error of the comparison with
\* the geometry bbox as given, and the final status is no more severe.
C29_AlignmentNeverWorse ==
    AlignedScored =>
        /\ \E i \in DOMAIN ret.geom_align.candidates :
              ret.geom_align.candidates[i].kind = ret.geom_align.chosen
        /\ ret.max_abs_err_px = ChosenEntry.max_abs_err_px
        /\ ret.status = ChosenEntry.status
        /\ Unaligned # Raised
        /\ ErrLe(ret.max_abs_err_px, Unaligned.max_abs_err_px)
        /\ status_severity(Str(ret.status)) <= status_severity(Str(Unaligned.status))

\* An alignment that improves the comparison: a viewport candidate is chosen,
\* the error is strictly smaller and the status goes from FAIL to PASS.
C29_Witness ==
    /\ AlignedScored
    /\ ret.geom_align.chosen # "raw"
    /\ IsNum(Unaligned.max_abs_err_px)
    /\ QLt(ret.max_abs_err_px, Unaligned.max_abs_err_px)
    /\ Unaligned.status = "FAIL"
    /\ ret.status = "PASS"

(***************************************************************************)
(* A caller that makes several calls of the core in a row.  args.calls is  *)
(* the sequence of calls, each with its function and arguments (and, for   *)
(* normalize_svg_viewport, what the file at the path holds when it is      *)
(* read); ret is the sequence of results so far.  compare_reports reads    *)
(* the wall clock, in whole seconds: the clock may tick between two calls. *)
(***************************************************************************)
MaxCalls == 3

Call(name, arguments) == [fn |-> name, args |-> arguments]

ReadCall(name, arguments, file) == [fn |-> name, args |-> arguments, file |-> file]

CoreCalls ==
    {Call("compare_bboxes", a) :
        a \in [qt : {Rect(0, 0, 1, 1)}, geom : {Rect(0, 0, 1, 1)},
               tol : {Num(0)}, warn : {Num(1)}]} \cup
    {Call("align_geom_bbox_to_qt", a) :
        a \in [qt : {Rect(0, 0, 2, 2)}, geom : {Rect(0, 0, 1, 1)}, render_px : {Num(2)},
               qtsvg_viewbox : {Rect(0, 0, 2, 2)}, svge_viewbox : {None},
               svge_doc_size : {None}, tol : {Num(0)}, warn : {Num(1)}]} \cup
    {Call("rank_items", a) :
        a \in [items : {<<Item(Str("a.svg"), Str("FAIL"), Num(1))>>},
               include_no_geom : {FALSE}, limit : {None}]} \cup
    {Call("build_repro_cmd", a) :
        a \in [svg_path : {Str("a.svg")}, out_dir : {Str("out")},
               modes : {Tup(<<Str("qtsvg"), Str("svgelements")>>)},
               size_px : {Num(1)}, render_scale : {Num(1)}, bbox_tol : {Num(1)},
               bbox_warn : {Num(1)}, recursive : {None}]} \cup
    {Call("compare_reports", a) :
        a \in [os_name : {"posix"}, baseline_items : {<<>>, BaselineTwice},
               current_items : {CurrentTwice}, err_eps : ErrEps]} \cup
    {ReadCall("normalize_svg_viewport", [svg_path |-> Str("a.svg")], f) :
        f \in {Root(LenText(Num(1), "in"), LenText(Num(1), "in"), None),
               Root(LenText(Num(2), "in"), LenText(Num(1), "in"), None)}}

CallSequences == UNION {[1..n -> CoreCalls] : n \in 1..MaxCalls}

InitCalls ==
    /\ fn = "calls"
    /\ args \in [calls : CallSequences]
    /\ ret = <<>>
    /\ pc = "call"
    /\ clock = 0

\* The call the caller makes next.
NextCall == args.calls[Len(ret) + 1]

Calling(name) == pc = "call" /\ fn = "calls" /\ NextCall.fn = name

\* The call returns r; the wall clock has moved on by less than a second
\* or by a second meanwhile.
Returns(r, now) ==
    /\ ret' = Append(ret, r)
    /\ pc' = IF Len(ret) + 1 = Len(args.calls) THEN "done" ELSE "call"
    /\ clock' = now
    /\ UNCHANGED <<fn, args>>

next_compare_bboxes ==
    /\ Calling("compare_bboxes")
    /\ \E now \in {clock, clock + 1} :
          Returns(compare_bboxes(NextCall.args.qt, NextCall.args.geom,
                      NextCall.args.tol, NextCall.args.warn), now)

next_align_geom_bbox_to_qt ==
    /\ Calling("align_geom_bbox_to_qt")
    /\ \E now \in {clock, clock + 1} :
          Returns(align_geom_bbox_to_qt(NextCall.args.qt, NextCall.args.geom,
                      NextCall.args.render_px, NextCall.args.qtsvg_viewbox,
                      NextCall.args.svge_viewbox, NextCall.args.svge_doc_size,
                      NextCall.args.tol, NextCall.args.warn), now)

next_rank_items ==
    /\ Calling("rank_items")
    /\ \E now \in {clock, clock + 1} :
          Returns(rank_items(NextCall.args.items, NextCall.args.include_no_geom,
                      NextCall.args.limit), now)

next_build_repro_cmd ==
    /\ Calling("build_repro_cmd")
    /\ \E now \in {clock, clock + 1} :
          Returns(build_repro_cmd(NextCall.args.svg_path, NextCall.args.out_dir,
                      NextCall.args.modes, NextCall.args.size_px,
                      NextCall.args.render_scale, NextCall.args.bbox_tol,
                      NextCall.args.bbox_warn, NextCall.args.recursive), now)

next_compare_reports ==
    /\ Calling("compare_reports")
    /\ \E now \in {clock, clock + 1} :
          Returns(compare_reports(NextCall.args.os_name, now,
                      NextCall.args.baseline_items, NextCall.args.current_items,
                      NextCall.args.err_eps), now)

next_normalize_svg_viewport ==
    /\ Calling("normalize_svg_viewport")
    /\ \E now \in {clock, clock + 1} :
          Returns(normalize_svg_viewport(NextCall.args.svg_path, NextCall.file), now)

NextCalls ==
    \/ next_compare_bboxes
    \/ next_align_geom_bbox_to_qt
    \/ next_rank_items
    \/ next_build_repro_cmd
    \/ next_compare_reports
    \/ next_normalize_svg_viewport

SpecCalls == InitCalls /\ [][NextCalls]_vars

(***************************************************************************)
(* Claim C24 about repeated calls (checked under SpecCalls).               *)
(***************************************************************************)
\* Calls i and j have both returned and have the same function and equal
\* arguments.
SameCall(i, j) ==
    /\ i \in DOMAIN ret
    /\ j \in DOMAIN ret
    /\ args.calls[i].fn = args.calls[j].fn
    /\ args.calls[i].args = args.calls[j].args

\* C24: every call of the core is a pure function of its arguments: two
\* calls of normalize_svg_viewport, align_geom_bbox_to_qt, compare_bboxes,
\* rank_items, build_repro_cmd or compare_reports with equal arguments
\* return equal results, whatever calls were made in between.
C24_EqualArgumentsEqualResults ==
    fn = "calls" =>
        \A i, j \in 1..MaxCalls : SameCall(i, j) => ret[i] = ret[j]

(***************************************************************************)
(* render_debug.py: a batch run of main.                                   *)
(*                                                                         *)
(* A file of the batch is what the collaborators yield for it: whether the *)
(* QtSvg rendering raises, the alpha bbox of the raw render, the bbox,     *)
(* viewBox and document size svgelements reports, and the QtSvg viewBox.   *)
(* ret is the state of main: the summary items, the flat report, the       *)
(* ranked failures, the regression summary and the files written so far.   *)
(***************************************************************************)
MaxFiles == 2

Raises(e) == [k |-> "raise", error |-> e]

\* render_px = max(32, min(size * scale, 1024)).
render_px_of(size_px, render_scale) ==
    LET p == size_px * render_scale
        m == IF p < 1024 THEN p ELSE 1024
    IN  IF m > 32 THEN m ELSE 32

\* The names bound in _render_one where the meta dict is built: its
\* parameters and the locals assigned above.
LocalNames ==
    {"svg_path", "out_dir", "size_px", "render_scale", "theme_id", "modes", "bbox_tol",
     "bbox_warn", "results", "render_px", "r_meta", "qtsvg_viewbox", "qtsvg_info",
     "svgelements_info", "raw", "raw_nonzero", "raw_alpha_bbox", "geom_bbox_xyxy",
     "geom_viewbox", "geom_doc_size", "aligned_geom_bbox_xyxy", "geom_align",
     "geom_compare", "st0", "qt_xyxy", "gm_xyxy", "max_err", "_wh", "shared_notes"}

\* max(0.0, v).
NonNegative(v) == IF QLt(v, Num(0)) THEN Num(0) ELSE v

\* The WARN subclass: WARN_RATIO when the aspect ratios of the two boxes
\* differ by 15 % or more of the geometry's, else WARN_SMALL.
warn_kind(qt_xyxy, gm_xyxy) ==
    LET wq == NonNegative(BBoxW(qt_xyxy.items))
        hq == NonNegative(BBoxH(qt_xyxy.items))
        wg == NonNegative(BBoxW(gm_xyxy.items))
        hg == NonNegative(BBoxH(gm_xyxy.items))
    IN  IF /\ QLt(Num(0), hq) /\ QLt(Num(0), hg) /\ QLt(Num(0), wq) /\ QLt(Num(0), wg)
           /\ QLe(Q(15, 100), QDiv(QAbs(QSub(QDiv(wq, hq), QDiv(wg, hg))), QDiv(wg, hg)))
        THEN "WARN_RATIO"
        ELSE "WARN_SMALL"

\* The status reclassification of _render_one.
reclassify(gc) ==
    IF gc.status = "INVISIBLE" /\ gc.geom_bbox_xyxy # None
    THEN [gc EXCEPT !.status = "INVISIBLE_QTSVG",
                    !.notes = Append(@, "QtSvg rendered fully transparent (alpha bbox empty)")]
    ELSE IF gc.status = "WARN"
    THEN [gc EXCEPT !.status = warn_kind(gc.qt_bbox_xyxy, gc.geom_bbox_xyxy)]
    ELSE IF gc.status = "FAIL"
    THEN [gc EXCEPT !.status = "FAIL_ALIGN"]
    ELSE gc

\* The meta dict; it reads nv.doc_w, nv.doc_h, ... of a name nv.
meta_of(file, gc) ==
    IF "nv" \notin LocalNames THEN Raises("NameError")
    ELSE [k |-> "dict", raw_alpha_bbox |-> file.raw_alpha_bbox, bbox_compare |-> gc]

\* The aligned comparison of one file, reclassified.
bbox_compare_of(file, render_px, bbox_tol, bbox_warn) ==
    reclassify(geom_compare(file.raw_alpha_bbox, file.bbox, render_px, file.qtsvg_viewbox,
                   file.viewbox, file.doc_size, bbox_tol, bbox_warn))

\* _render_one: the meta dict, or the exception that escapes.
render_one(file, render_px, bbox_tol, bbox_warn) ==
    IF file.render = "raises" THEN Raises("RuntimeError")
    ELSE meta_of(file, bbox_compare_of(file, render_px, bbox_tol, bbox_warn))

\* The record main appends to the flat report.
flat_record(svg, gc) ==
    [k |-> "dict", svg |-> svg, status |-> Str(gc.status),
     max_abs_err_px |-> gc.max_abs_err_px, qt_bbox_xyxy |-> gc.qt_bbox_xyxy,
     geom_bbox_xyxy |-> gc.geom_bbox_xyxy, diff |-> gc.diff, notes |-> gc.notes,
     geom_align |-> gc.geom_align]

\* The body of the loop for one file: the record and the summary item, or
\* the error item of the except branch.
after_file(state, svg, outcome) ==
    IF outcome.k = "raise"
    THEN [state EXCEPT !.items = Append(@, [svg |-> svg, error |-> outcome.error])]
    ELSE [state EXCEPT !.bbox_report = Append(@, flat_record(svg, outcome.bbox_compare)),
                       !.items = Append(@, [svg |-> svg, meta |-> outcome])]

\* A loop without the except branch: the exception ends main.
loop_pc_uncaught(outcome, i, n) ==
    IF outcome.k = "raise" THEN "aborted"
    ELSE IF i < n THEN "loop" ELSE "bbox_report"

\* Where main goes after file i of n.
loop_pc(outcome, i, n) == IF i < n THEN "loop" ELSE "bbox_report"

\* limit = None if top_n == 0 else max(1, top_n).
rank_limit(top_n) == IF top_n = 0 THEN None ELSE IF top_n > 1 THEN Num(top_n) ELSE Num(1)

\* The repro command added to a ranked item; an exception leaves None.
with_repro(it, a) ==
    LET cmd == build_repro_cmd(it.svg, Str("out"), Tup(<<Str("raw")>>), Num(a.size),
                   Num(a.scale), a.bbox_tol, a.bbox_warn, None)
    IN  [f \in DOMAIN it \cup {"repro"} |->
            IF f = "repro" THEN (IF cmd = Raised THEN None ELSE cmd) ELSE it[f]]

\* The ranked failures with their repro commands.
ranked_failures(bbox_report, a) ==
    LET ranked == rank_items(bbox_report, FALSE, rank_limit(a.bbox_top)).items
    IN  [i \in DOMAIN ranked |-> with_repro(ranked[i], a)]

\* The baseline comparison; None when it raises (the except branch prints).
baseline_compare(bbox_report, a, now) ==
    LET reg == compare_reports(a.os_name, now,
                   load_bbox_report(Str("baseline.json"), a.bbox_baseline).items,
                   bbox_report, Q(1, 2))
    IN  IF reg = Raised THEN None ELSE reg

(***************************************************************************)
(* The files of the model, rendered at 32 px with tol 3 and warn 8.        *)
(***************************************************************************)
SvgFile(render, alpha, bbox, vb, size, qt_vb) ==
    [render |-> render, raw_alpha_bbox |-> alpha, bbox |-> bbox, viewbox |-> vb,
     doc_size |-> size, qtsvg_viewbox |-> qt_vb]

FileKinds ==
    {SvgFile("raises", None, None, None, None, None),
     SvgFile("ok", Rect(0, 0, 32, 32), Rect(0, 0, 32, 32), None, None, None),
     SvgFile("ok", Rect(0, 0, 32, 32), Rect(0, 0, 36, 36), None, None, None),
     SvgFile("ok", Rect(0, 0, 32, 32), Rect(0, 0, 32, 37), None, None, None),
     SvgFile("ok", Rect(0, 0, 32, 32), Rect(0, 0, 64, 64), None, None, None),
     SvgFile("ok", Rect(0, 0, 32, 32), Rect(0, 0, 64, 64), Rect(0, 0, 64, 64), None, None),
     SvgFile("ok", None, Rect(0, 0, 32, 32), None, None, None),
     SvgFile("ok", Rect(0, 0, 32, 32), None, None, None, None)}

\* The sorted paths of the batch.
SvgName(i) == RankSvg[i]

Batches == UNION {[1..n -> FileKinds] : n \in 1..MaxFiles}

\* The baseline file: none given, or a flat report with a.svg at WARN.
Baselines == {None, Tup(<<Item(Str("a.svg"), Str("WARN"), Num(5))>>)}

InitBatch ==
    /\ fn = "main"
    /\ args \in [svg_files : Batches, size : {16}, scale : {2},
                 bbox_tol : {Num(3)}, bbox_warn : {Num(8)}, bbox_top : {0, 25},
                 bbox_baseline : Baselines, os_name : {"posix"}]
    /\ ret = [k |-> "batch", items |-> <<>>, bbox_report |-> <<>>, failures |-> None,
              regressions |-> None, written |-> <<>>, code |-> None]
    /\ pc = "loop"
    /\ clock = 0

\* One pass of the loop over svg_files.
process_file ==
    /\ fn = "main"
    /\ pc = "loop"
    /\ LET i == Len(ret.items) + 1
           outcome == render_one(args.svg_files[i],
                          Num(render_px_of(args.size, args.scale)),
                          args.bbox_tol, args.bbox_warn)
       IN  /\ ret' = after_file(ret, SvgName(i), outcome)
           /\ pc' = loop_pc(outcome, i, Len(args.svg_files))
    /\ clock' = clock + 1
    /\ UNCHANGED <<fn, args>>

write_bbox_report ==
    /\ fn = "main"
    /\ pc = "bbox_report"
    /\ ret' = [ret EXCEPT !.written = Append(@, "_bbox_report.json")]
    /\ pc' = "failures"
    /\ clock' = clock + 1
    /\ UNCHANGED <<fn, args>>

write_failures ==
    /\ fn = "main"
    /\ pc = "failures"
    /\ ret' = [ret EXCEPT !.failures = ranked_failures(ret.bbox_report, args),
                          !.written = Append(@, "_bbox_failures.json")]
    /\ pc' = "baseline"
    /\ clock' = clock + 1
    /\ UNCHANGED <<fn, args>>

compare_baseline ==
    /\ fn = "main"
    /\ pc = "baseline"
    /\ ret' = IF args.bbox_baseline = None
                 \/ baseline_compare(ret.bbox_report, args, clock) = None
              THEN ret
              ELSE [ret EXCEPT !.regressions = baseline_compare(ret.bbox_report, args, clock),
                               !.written = Append(@, "_bbox_regressions.json")]
    /\ pc' = "summary"
    /\ clock' = clock + 1
    /\ UNCHANGED <<fn, args>>

write_summary ==
    /\ fn = "main"
    /\ pc = "summary"
    /\ ret' = [ret EXCEPT !.written = Append(@, "_summary.json"), !.code = 0]
    /\ pc' = "done"
    /\ clock' = clock + 1
    /\ UNCHANGED <<fn, args>>

NextBatch ==
    \/ process_file
    \/ write_bbox_report
    \/ write_failures
    \/ compare_baseline
    \/ write_summary

SpecBatch == InitBatch /\ [][NextBatch]_vars

\* main is one thread that runs to its end.
SpecBatchFair == SpecBatch /\ WF_vars(NextBatch)

(***************************************************************************)
(* Claims about a batch run of main (C25 under SpecBatchFair, C26 and C30  *)
(* under SpecBatch).                                                       *)
(***************************************************************************)
\* What _render_one yields for file i of the batch.
OutcomeOf(i) ==
    render_one(args.svg_files[i], Num(render_px_of(args.size, args.scale)),
        args.bbox_tol, args.bbox_warn)

\* The summary item of file i records an error.
ErrorRecorded(i) ==
    /\ i \in DOMAIN ret.items
    /\ ret.items[i].svg = SvgName(i)
    /\ "error" \in DOMAIN ret.items[i]
    /\ ret.items[i].error = OutcomeOf(i).error

\* The processing of some file has failed.
FailureSeen ==
    /\ fn = "main"
    /\ \E i \in DOMAIN ret.items : OutcomeOf(i).k = "raise"

\* The reports written, the regression report apart.
ReportsWritten == SelectSeq(ret.written, LAMBDA f : f # "_bbox_regressions.json")

\* main has returned 0: every file has its summary item, in the order of the
\* batch, each failure is recorded on its file's item, and the flat report,
\* the ranked failures and the summary have been written, in this order.
BatchCompleted ==
    /\ fn = "main"
    /\ pc = "done"
    /\ ret.code = 0
    /\ Len(ret.items) = Len(args.svg_files)
    /\ \A i \in DOMAIN ret.items :
          /\ ret.items[i].svg = SvgName(i)
          /\ OutcomeOf(i).k = "raise" => ErrorRecorded(i)
    /\ ReportsWritten = <<"_bbox_report.json", "_bbox_failures.json", "_summary.json">>
    /\ ret.failures # None

\* C25: in a batch run a failure while processing one SVG file does not
\* abort the batch: once a file has failed, the run still reaches its end,
\* where the error is recorded on that file's summary item, every remaining
\* file has been processed in order, and the flat report, the ranked-failures
\* report and the summary have been written.
C25_FailureDoesNotAbort == FailureSeen ~> BatchCompleted

\* A batch of two files whose first file fails in the rendering: the second
\* file has its item and the three reports are written.
C25_Witness ==
    /\ BatchCompleted
    /\ Len(args.svg_files) = 2
    /\ args.svg_files[1].render = "raises"
    /\ ErrorRecorded(1)
    /\ ret.items[2].svg = SvgName(2)

\* The records of file i in the flat report.
RecordsOf(i) == {j \in DOMAIN ret.bbox_report : ret.bbox_report[j].svg = SvgName(i)}

\* The rendering of file i and its aligned comparison complete.
ComparisonCompletes(i) ==
    /\ args.svg_files[i].render = "ok"
    /\ bbox_compare_of(args.svg_files[i], Num(render_px_of(args.size, args.scale)),
           args.bbox_tol, args.bbox_warn) # Raised

\* C26: every file of the batch whose rendering and comparison complete
\* contributes exactly one record to the flat report, and the record's
\* status is one of PASS, WARN, FAIL, INVISIBLE, NO_GEOM.
C26_OneRecordPerFile ==
    fn = "main" =>
        \A i \in DOMAIN ret.items :
            ComparisonCompletes(i) =>
                /\ Cardinality(RecordsOf(i)) = 1
                /\ \A j \in RecordsOf(i) :
                      StatusText(ret.bbox_report[j].status) \in ComparatorStatuses

\* The status compare_bboxes gives the aligned comparison of file i.
FinalStatus(i) ==
    geom_compare(args.svg_files[i].raw_alpha_bbox, args.svg_files[i].bbox,
        Num(render_px_of(args.size, args.scale)), args.svg_files[i].qtsvg_viewbox,
        args.svg_files[i].viewbox, args.svg_files[i].doc_size,
        args.bbox_tol, args.bbox_warn).status

\* File i is WARN in the baseline.
WarnInBaseline(i) ==
    /\ args.bbox_baseline # None
    /\ \E j \in DOMAIN args.bbox_baseline.items :
          /\ args.bbox_baseline.items[j].svg = SvgName(i)
          /\ args.bbox_baseline.items[j].status = Str("WARN")

\* C30: in a batch run with --bbox-top 0 every file whose final aligned
\* comparison is WARN, FAIL or INVISIBLE appears in the ranked-failures
\* report, and a file that is WARN in the baseline and FAIL in the current
\* run is reported as a regression.
C30_FailuresRankedAndRegressed ==
    (fn = "main" /\ pc = "done" /\ args.bbox_top = 0) =>
        \A i \in DOMAIN args.svg_files :
            args.svg_files[i].render = "ok" =>
                /\ FinalStatus(i) \in ACTIONABLE_STATUSES =>
                      \E j \in DOMAIN ret.failures : ret.failures[j].svg = SvgName(i)
                /\ (WarnInBaseline(i) /\ FinalStatus(i) = "FAIL") =>
                      /\ ret.regressions # None
                      /\ \E j \in DOMAIN ret.regressions.regressions :
                            ret.regressions.regressions[j].svg = SvgName(i)

=============================================================================
